---- MODULE Spec2Model ----
(***************************************************************************)
(* BaseAuditBot: the deployment monitor (services/monitor.ts), its audit   *)
(* dispatch pipeline and the in-memory report store (services/storage.ts), *)
(* the Basescan client with its rate limiter (services/basescan.ts) and    *)
(* the analyzer with its chunker (services/analyzer.ts).                   *)
(* One step of the model is one run of the event loop between two awaits.  *)
(***************************************************************************)
EXTENDS Integers, Sequences, FiniteSets, TLC

\* ------------------------------------------------------------------ bounds
\* highest chain height the RPC endpoint reports
MaxBlock == 3
\* number of startMonitor calls that get past the isRunning test
MaxRuns == 2
\* cap on monitorState.contractsFound (deployments detected in total)
MaxFound == 2
\* number of rateLimitWait calls
MaxCalls == 7
\* ticks of the clock after the first second
MaxTicks == 3
\* getContractSource calls nested in one another
MaxDepth == 3
\* characters of a source text
MaxLen == 6
\* objects in the JSON array of one analyzer response
MaxFindings == 2
\* saveAudit calls
MaxPuts == 3
\* POST /audit requests of a behaviour
MaxRequests == 2

VARIABLES
    monitorState,      \* monitor.ts:10  lastProcessedBlock, isRunning, counters
    stopRequested,     \* monitor.ts:19
    config,            \* index.ts:9     startBlock, maxConcurrentAnalyses
    mpc,               \* where the polling loop of startMonitor is suspended
    toBlock,           \* monitor.ts:82  local of the current tick
    blockNum,          \* monitor.ts:89  local of the block loop
    txIdx,             \* monitor.ts:96  position in block.transactions
    auditQueue,        \* monitor.ts:51  one queue per startMonitor closure
    processingAudits,  \* monitor.ts:52  one counter per startMonitor closure
    wpc,               \* where processAudits of each closure is suspended
    audits,            \* the processContract calls that have not settled
    auditsById,        \* storage.ts:7   the reports, each under its own id
    auditsByAddress,   \* storage.ts:8   lower-case address -> id of its report
    tickLog,           \* the getBlock calls of the current tick and their fate
    now,               \* basescan.ts:10 Date.now(), in ticks
    lastRequestTime,   \* basescan.ts:6
    requestsThisSecond,\* basescan.ts:7
    callers,           \* the rateLimitWait calls and where each stands
    fetchStack,        \* the getContractSource calls of one fetch, outermost first
    fetchResult,       \* what the outermost getContractSource call settled with
    httpCalls,         \* basescan.ts:41 requests sent by the fetch
    sourceCode,        \* analyzer.ts:10 the text handed to analyzeContract
    chunks,            \* analyzer.ts:21 the texts submitted to the analyzer
    confidenceThreshold, \* index.ts:20
    llmFindings,       \* analyzer.ts:161 the parsed array of each chunk's response
    allFindings,       \* analyzer.ts:22
    savedReport,       \* the report built from allFindings
    putLog,            \* the saveAudit calls made on the store, in order
    dataDir,           \* storage.ts:62 the ids of the report files, as written
    route,             \* index.ts:202 the /audit handlers that have not replied
    replies            \* index.ts:202 the replies of the /audit handlers, in order

\* the monitor, its worker pool and the store
monitorVars == << monitorState, stopRequested, config, mpc, toBlock, blockNum,
                  txIdx, auditQueue, processingAudits, wpc, audits, auditsById,
                  auditsByAddress, tickLog >>

\* services/basescan.ts: the rate limiter
limiterVars == << now, lastRequestTime, requestsThisSecond, callers >>

\* services/basescan.ts: getContractSource
fetchVars == << fetchStack, fetchResult, httpCalls >>

\* services/analyzer.ts
analyzerVars == << sourceCode, chunks, confidenceThreshold, llmFindings,
                   allFindings, savedReport >>

\* services/storage.ts: the calls of saveAudit and the data directory
storeVars == << putLog, dataDir >>

\* index.ts:202 the /audit route
routeVars == << route, replies >>

\* what the monitor's steps leave alone
libVars == << limiterVars, fetchVars, analyzerVars, storeVars, routeVars >>

vars == << monitorVars, libVars >>

\* ------------------------------------------------------------ environment
\* A contract address: its 160-bit value and whether it is spelled with
\* the mixed-case checksum, as viem returns it in a receipt
Address(n) == [hex |-> n, mixedCase |-> TRUE]

\* String.prototype.toLowerCase on an address
ToLowerCase(address) == [address EXCEPT !.mixedCase = FALSE]

\* the contractAddress of a receipt that carries none (null)
NullAddress == [hex |-> 0, mixedCase |-> FALSE]

\* a transaction: `to` is "null" for a contract creation; `created` is the
\* contractAddress of its receipt
CreationTx(addr) == [to |-> "null", created |-> addr]
CallTx == [to |-> "0xEE", created |-> NullAddress]

\* block.transactions of block b as the RPC endpoint returns it: the address
\* a creation transaction deploys to is unique on the chain
BlockTxs(b) ==
    IF b % 2 = 0
    THEN << CreationTx(Address(10 * b + 1)), CreationTx(Address(10 * b + 2)) >>
    ELSE << CallTx, CreationTx(NullAddress) >>

\* the configurations loadConfig returns, index.ts:9: START_BLOCK set with
\* one analysis at a time, or not set (0) with two
Configs ==
    { [startBlock |-> 1, maxConcurrentAnalyses |-> 1],
      [startBlock |-> 0, maxConcurrentAnalyses |-> 2] }

\* what analyzeContract resolves to: the threshold-filtered findings
AnalyzerOutputs ==
    { << >>, << [severity |-> "low"], [severity |-> "high"] >> }

\* basescan.ts:11 one second (1000 ms) in ticks of the clock: a tick is 500 ms
Second == 2

\* basescan.ts:16 the requests the limiter lets through per second
RateLimit == 5

\* analyzer.ts:4 the 16,000 characters of MAX_SOURCE_LENGTH, in units of
\* 4,000 characters
MAX_SOURCE_LENGTH == 4

\* the clock stops here
Horizon == Second + MaxTicks

\* a call that has not settled, a report that was not built
NoResult == [kind |-> "none"]

\* the greatest element of a non-empty set of numbers
SetMax(S) == CHOOSE x \in S : \A y \in S : y <= x

\* ------------------------------------------------------------- operators
Min(a, b) == IF a <= b THEN a ELSE b

\* monitor.ts:235 determineOverallRisk
determineOverallRisk(findings) ==
    LET some(sev) == \E i \in 1..Len(findings) : findings[i].severity = sev
    IN  IF some("critical") THEN "critical"
        ELSE IF some("high") THEN "high"
        ELSE IF some("medium") THEN "medium"
        ELSE IF some("low") THEN "low"
        ELSE "none"

\* the lookup without the toLowerCase of storage.ts:71
getAuditByAddress_CaseSensitive(address) ==
    IF address \in DOMAIN auditsByAddress
    THEN auditsByAddress[address]
    ELSE 0

\* storage.ts:70 getAuditByAddress, as the id of the report (0: undefined)
getAuditByAddress(address) ==
    IF ToLowerCase(address) \in DOMAIN auditsByAddress
    THEN auditsByAddress[ToLowerCase(address)]
    ELSE 0

\* storage.ts:66 getAuditById, as the set of reports stored under the id
getAuditById(id) == {r \in auditsById : r.id = id}

\* monitor.ts:162 the dedup test of processContract
AlreadyAudited(address) == getAuditByAddress(address) # 0

\* the minimal report flagged as if its source had been available
MinimalReport_SourceAvailable(d) ==
    [id |-> d.seq, contractAddress |-> d.contractAddress,
     sourceAvailable |-> TRUE, findings |-> << >>, overallRisk |-> "none"]

\* monitor.ts:175 the report saved when no verified source exists
MinimalReport(d) ==
    [id |-> d.seq, contractAddress |-> d.contractAddress, sourceAvailable |-> FALSE,
     findings |-> << >>, overallRisk |-> "none"]

\* monitor.ts:207 the report saved after an analysis
FullReport(d, findings) ==
    [id |-> d.seq, contractAddress |-> d.contractAddress, sourceAvailable |-> TRUE,
     findings |-> findings, overallRisk |-> determineOverallRisk(findings)]

\* the test of line 80 written as an inequality
HasNewBlocks_Differs(currentBlock, last) == currentBlock # last

\* monitor.ts:80 the test that a tick has blocks to process
HasNewBlocks(currentBlock, last) == currentBlock > last

\* a block loop that steps over every other block
NextBlockNum_Skips(b) == b + 2

\* monitor.ts:89 the increment of the block loop
NextBlockNum(b) == b + 1

\* a settled audit that leaves the in-flight counter as it is
AfterFinally_NoDecrement(n) == n

\* monitor.ts:68 the finally handler of a dispatched audit
AfterFinally(n) == n - 1

\* a pool that dispatches nothing while more than one deployment is pending
Dispatchable_OneAtATime(queue, processing) ==
    IF processing >= config.maxConcurrentAnalyses \/ Len(queue) > 1
    THEN 0
    ELSE Min(Len(queue), config.maxConcurrentAnalyses - processing)

\* monitor.ts:57 the number of deployments one pass of processAudits
\* dispatches before it sleeps
Dispatchable(queue, processing) ==
    IF processing >= config.maxConcurrentAnalyses
    THEN 0
    ELSE Min(Len(queue), config.maxConcurrentAnalyses - processing)

\* monitor.ts:98 index of the first creation transaction at or after i (0: none)
NextCreation(txs, i) ==
    LET cand == {j \in i..Len(txs) : txs[j].to = "null"}
    IN  IF cand = {} THEN 0 ELSE CHOOSE j \in cand : \A k \in cand : j <= k

\* the record of the getBlock call in progress gets its outcome
MarkLast(log, result) == [log EXCEPT ![Len(log)].result = result]

\* the closure of the latest startMonitor call
cur == Len(auditQueue)

\* ------------------------------------------------------------------- Init
Init ==
    /\ monitorState = [lastProcessedBlock |-> 0, isRunning |-> FALSE,
                       contractsFound |-> 0, contractsAudited |-> 0,
                       contractsSkipped |-> 0]
    /\ stopRequested = FALSE
    /\ config \in Configs
    /\ mpc = "idle"
    /\ toBlock = 0
    /\ blockNum = 0
    /\ txIdx = 0
    /\ auditQueue = << >>
    /\ processingAudits = << >>
    /\ wpc = << >>
    /\ audits = {}
    /\ auditsById = {}
    /\ auditsByAddress = << >>
    /\ tickLog = << >>
    /\ now = Second
    /\ lastRequestTime = 0
    /\ requestsThisSecond = 0
    /\ callers = << >>
    /\ fetchStack = << >>
    /\ fetchResult = NoResult
    /\ httpCalls = 0
    /\ sourceCode = << >>
    /\ chunks = << >>
    /\ confidenceThreshold = 0
    /\ llmFindings = << >>
    /\ allFindings = << >>
    /\ savedReport = NoResult
    /\ putLog = << >>
    /\ dataDir = << >>
    /\ route = {}
    /\ replies = << >>

\* --------------------------------------------------------- polling loop
\* the block loop with a test that leaves out the stop flag
ForLoop_IgnoresStop(b, to, ms, log) ==
    IF b <= to
    THEN /\ mpc' = "getBlock"
         /\ blockNum' = b
         /\ toBlock' = to
         /\ txIdx' = 0
         /\ tickLog' = Append(log, [block |-> b, result |-> "pending"])
         /\ monitorState' = ms
    ELSE /\ mpc' = "sleep"
         /\ blockNum' = 0
         /\ toBlock' = 0
         /\ txIdx' = 0
         /\ tickLog' = log
         /\ monitorState' = [ms EXCEPT !.lastProcessedBlock = to]

\* monitor.ts:89 and 138: the test of the block loop at block b and, when it
\* fails, the update of the marker and the move to the sleep of line 144
ForLoop(b, to, ms, log) ==
    IF b <= to /\ ~stopRequested
    THEN /\ mpc' = "getBlock"
         /\ blockNum' = b
         /\ toBlock' = to
         /\ txIdx' = 0
         /\ tickLog' = Append(log, [block |-> b, result |-> "pending"])
         /\ monitorState' = ms
    ELSE /\ mpc' = "sleep"
         /\ blockNum' = 0
         /\ toBlock' = 0
         /\ txIdx' = 0
         /\ tickLog' = log
         /\ monitorState' = [ms EXCEPT !.lastProcessedBlock = to]

\* monitor.ts:96 the transaction loop of block blockNum resumed at index i
ScanFrom(i, ms) ==
    LET j == NextCreation(BlockTxs(blockNum), i)
    IN  IF j = 0
        THEN ForLoop(NextBlockNum(blockNum), toBlock, ms,
                     MarkLast(tickLog, "scanned"))
        ELSE /\ mpc' = "receipt"
             /\ txIdx' = j
             /\ monitorState' = ms
             /\ UNCHANGED << blockNum, toBlock, tickLog >>

\* monitor.ts:51-76: the closure's queue and counter, the first pass of
\* processAudits and the first test of the polling loop
EnterLoops(ms, stop) ==
    /\ auditQueue' = Append(auditQueue, << >>)
    /\ processingAudits' = Append(processingAudits, 0)
    /\ wpc' = Append(wpc, IF stop THEN "done" ELSE "sleep")
    /\ IF stop
       THEN /\ mpc' = "idle"
            /\ monitorState' = [ms EXCEPT !.isRunning = FALSE]
       ELSE /\ mpc' = "height"
            /\ monitorState' = ms

\* a startMonitor without the test of the running flag of line 26
StartMonitor_IgnoresRunning ==
    /\ mpc # "exited"
    /\ Len(auditQueue) < MaxRuns
    /\ stopRequested' = FALSE
    /\ LET ms == [monitorState EXCEPT !.isRunning = TRUE]
       IN  IF config.startBlock # 0
           THEN EnterLoops([ms EXCEPT !.lastProcessedBlock = config.startBlock],
                           FALSE)
           ELSE IF monitorState.lastProcessedBlock = 0
           THEN /\ mpc' = "starting"
                /\ monitorState' = ms
                /\ UNCHANGED << auditQueue, processingAudits, wpc >>
           ELSE EnterLoops(ms, FALSE)
    /\ UNCHANGED << config, toBlock, blockNum, txIdx, audits, auditsById,
                    auditsByAddress, tickLog >>
    /\ UNCHANGED libVars

\* monitor.ts:25-46 startMonitor up to its first await
StartMonitor ==
    /\ ~monitorState.isRunning
    /\ Len(auditQueue) < MaxRuns
    /\ stopRequested' = FALSE
    /\ LET ms == [monitorState EXCEPT !.isRunning = TRUE]
       IN  IF config.startBlock # 0
           THEN EnterLoops([ms EXCEPT !.lastProcessedBlock = config.startBlock],
                           FALSE)
           ELSE IF monitorState.lastProcessedBlock = 0
           THEN /\ mpc' = "starting"
                /\ monitorState' = ms
                /\ UNCHANGED << auditQueue, processingAudits, wpc >>
           ELSE EnterLoops(ms, FALSE)
    /\ UNCHANGED << config, toBlock, blockNum, txIdx, audits, auditsById,
                    auditsByAddress, tickLog >>
    /\ UNCHANGED libVars

\* monitor.ts:44 getBlockNumber resolves while the monitor starts
StartReturns(h) ==
    /\ mpc = "starting"
    /\ EnterLoops([monitorState EXCEPT !.lastProcessedBlock = h], stopRequested)
    /\ UNCHANGED << stopRequested, config, toBlock, blockNum, txIdx, audits,
                    auditsById, auditsByAddress, tickLog >>
    /\ UNCHANGED libVars

\* monitor.ts:44 getBlockNumber rejects: the await is outside every try, so
\* startMonitor rejects with isRunning left true. The marker is 0 only before
\* the first start has passed this line, and the first start is the call of
\* main (index.ts:89), whose rejection ends the process (index.ts:92-95).
StartFails ==
    /\ mpc = "starting"
    /\ mpc' = "exited"
    /\ UNCHANGED << monitorState, stopRequested, config, toBlock, blockNum,
                    txIdx, auditQueue, processingAudits, wpc, audits,
                    auditsById, auditsByAddress, tickLog >>
    /\ UNCHANGED libVars

\* index.ts:196 and monitor.ts:151 stopMonitor, called by the route of a
\* live process
StopMonitor ==
    /\ mpc # "exited"
    /\ ~stopRequested
    /\ stopRequested' = TRUE
    /\ UNCHANGED << monitorState, config, mpc, toBlock, blockNum, txIdx,
                    auditQueue, processingAudits, wpc, audits, auditsById,
                    auditsByAddress, tickLog >>
    /\ UNCHANGED libVars

\* monitor.ts:78-89 getBlockNumber resolves inside a tick
HeightReturns(h) ==
    /\ mpc = "height"
    /\ IF HasNewBlocks(h, monitorState.lastProcessedBlock)
       THEN ForLoop(monitorState.lastProcessedBlock + 1, h, monitorState,
                    << >>)
       ELSE /\ mpc' = "sleep"
            /\ UNCHANGED << monitorState, toBlock, blockNum, txIdx, tickLog >>
    /\ UNCHANGED << stopRequested, config, auditQueue, processingAudits, wpc,
                    audits, auditsById, auditsByAddress >>
    /\ UNCHANGED libVars

\* a rejected getBlockNumber that leaves the loop, as one outside the try of
\* line 77 would
HeightFails_LeavesLoop ==
    /\ mpc = "height"
    /\ mpc' = "idle"
    /\ UNCHANGED << monitorState, stopRequested, config, toBlock, blockNum,
                    txIdx, auditQueue, processingAudits, wpc, audits,
                    auditsById, auditsByAddress, tickLog >>
    /\ UNCHANGED libVars

\* monitor.ts:140 getBlockNumber rejects inside a tick
HeightFails ==
    /\ mpc = "height"
    /\ mpc' = "sleep"
    /\ UNCHANGED << monitorState, stopRequested, config, toBlock, blockNum,
                    txIdx, auditQueue, processingAudits, wpc, audits,
                    auditsById, auditsByAddress, tickLog >>
    /\ UNCHANGED libVars

\* monitor.ts:91-96 getBlock resolves
BlockReturns ==
    /\ mpc = "getBlock"
    /\ ScanFrom(1, monitorState)
    /\ UNCHANGED << stopRequested, config, auditQueue, processingAudits, wpc,
                    audits, auditsById, auditsByAddress >>
    /\ UNCHANGED libVars

\* monitor.ts:133 getBlock rejects
BlockFails ==
    /\ mpc = "getBlock"
    /\ ForLoop(NextBlockNum(blockNum), toBlock, monitorState,
               MarkLast(tickLog, "failed"))
    /\ UNCHANGED << stopRequested, config, auditQueue, processingAudits, wpc,
                    audits, auditsById, auditsByAddress >>
    /\ UNCHANGED libVars

\* monitor.ts:100-114 getTransactionReceipt resolves
ReceiptReturns ==
    /\ mpc = "receipt"
    /\ IF BlockTxs(blockNum)[txIdx].created # NullAddress
       THEN /\ mpc' = "getCode"
            /\ UNCHANGED << monitorState, toBlock, blockNum, txIdx, tickLog >>
       ELSE ScanFrom(txIdx + 1, monitorState)
    /\ UNCHANGED << stopRequested, config, auditQueue, processingAudits, wpc,
                    audits, auditsById, auditsByAddress >>
    /\ UNCHANGED libVars

\* a rejected getTransactionReceipt that gives up the block, as one caught
\* at line 133 would
ReceiptFails_SkipsBlock ==
    /\ mpc = "receipt"
    /\ ForLoop(NextBlockNum(blockNum), toBlock, monitorState,
               MarkLast(tickLog, "failed"))
    /\ UNCHANGED << stopRequested, config, auditQueue, processingAudits, wpc,
                    audits, auditsById, auditsByAddress >>
    /\ UNCHANGED libVars

\* monitor.ts:128 getTransactionReceipt rejects
ReceiptFails ==
    /\ mpc = "receipt"
    /\ ScanFrom(txIdx + 1, monitorState)
    /\ UNCHANGED << stopRequested, config, auditQueue, processingAudits, wpc,
                    audits, auditsById, auditsByAddress >>
    /\ UNCHANGED libVars

\* monitor.ts:114-126 getCode settles (its failure is swallowed at line 116)
GetCodeSettles ==
    /\ mpc = "getCode"
    /\ monitorState.contractsFound < MaxFound
    /\ LET n == monitorState.contractsFound + 1
           deployment == [seq |-> n,
                          contractAddress |-> BlockTxs(blockNum)[txIdx].created,
                          blockNumber |-> blockNum,
                          txIndex |-> txIdx]
       IN  /\ auditQueue' = [auditQueue EXCEPT ![cur] = Append(@, deployment)]
           /\ ScanFrom(txIdx + 1,
                       [monitorState EXCEPT !.contractsFound = n])
    /\ UNCHANGED << stopRequested, config, processingAudits, wpc, audits,
                    auditsById, auditsByAddress >>
    /\ UNCHANGED libVars

\* monitor.ts:144-147 the sleep ends and the loop test of line 76 runs
SleepDone ==
    /\ mpc = "sleep"
    /\ tickLog' = << >>
    /\ IF stopRequested
       THEN /\ mpc' = "idle"
            /\ monitorState' = [monitorState EXCEPT !.isRunning = FALSE]
       ELSE /\ mpc' = "height"
            /\ UNCHANGED monitorState
    /\ UNCHANGED << stopRequested, config, toBlock, blockNum, txIdx,
                    auditQueue, processingAudits, wpc, audits, auditsById,
                    auditsByAddress >>
    /\ UNCHANGED libVars

\* ------------------------------------------------------------ worker pool
\* a processAudits that takes the deployments pushed last (pop for shift)
WorkerWake_TakesLast(r) ==
    /\ wpc[r] = "sleep"
    /\ LET q == auditQueue[r]
           k == Dispatchable(q, processingAudits[r])
           rest == SubSeq(q, 1, Len(q) - k)
       IN  /\ auditQueue' = [auditQueue EXCEPT ![r] = rest]
           /\ processingAudits' = [processingAudits EXCEPT ![r] = @ + k]
           /\ audits' = audits \cup
                  { [seq |-> q[i].seq, run |-> r,
                     contractAddress |-> q[i].contractAddress,
                     pc |-> "debounce"] : i \in (Len(q) - k + 1)..Len(q) }
           /\ wpc' = [wpc EXCEPT ![r] =
                         IF stopRequested /\ rest = << >> THEN "done"
                         ELSE "sleep"]
    /\ UNCHANGED << monitorState, stopRequested, config, mpc, toBlock,
                    blockNum, txIdx, auditsById, auditsByAddress, tickLog >>
    /\ UNCHANGED libVars

\* monitor.ts:55-70 one pass of processAudits between two sleeps: it
\* dispatches deployments while the queue holds one and the ceiling allows,
\* then sleeps (line 58) or, with stop requested and the queue empty, returns
WorkerWake(r) ==
    /\ wpc[r] = "sleep"
    /\ LET q == auditQueue[r]
           k == Dispatchable(q, processingAudits[r])
           rest == SubSeq(q, k + 1, Len(q))
       IN  /\ auditQueue' = [auditQueue EXCEPT ![r] = rest]
           /\ processingAudits' = [processingAudits EXCEPT ![r] = @ + k]
           /\ audits' = audits \cup
                  { [seq |-> q[i].seq, run |-> r,
                     contractAddress |-> q[i].contractAddress,
                     pc |-> "debounce"] : i \in 1..k }
           /\ wpc' = [wpc EXCEPT ![r] =
                         IF stopRequested /\ rest = << >> THEN "done"
                         ELSE "sleep"]
    /\ UNCHANGED << monitorState, stopRequested, config, mpc, toBlock,
                    blockNum, txIdx, auditsById, auditsByAddress, tickLog >>
    /\ UNCHANGED libVars

\* monitor.ts:66-68 processContract settles: the audit leaves the in-flight
\* set and the finally handler runs
EndAudit(a) ==
    /\ audits' = audits \ {a}
    /\ processingAudits' =
           [processingAudits EXCEPT ![a.run] = AfterFinally(@)]

\* the audit a moves on to its next await
MoveAudit(a, pc) ==
    /\ audits' = (audits \ {a}) \cup {[a EXCEPT !.pc = pc]}
    /\ UNCHANGED processingAudits

\* a saveAudit that leaves the by-address entry of an address that has one
PutReport_KeepsFirst(report) ==
    /\ auditsById' = auditsById \cup {report}
    /\ auditsByAddress' =
           [k \in DOMAIN auditsByAddress \cup
                   {ToLowerCase(report.contractAddress)} |->
               IF k \in DOMAIN auditsByAddress
               THEN auditsByAddress[k]
               ELSE report.id]

\* storage.ts:59-60 saveAudit up to its await: both indexes are set
PutReport(report) ==
    /\ auditsById' = auditsById \cup {report}
    /\ auditsByAddress' =
           [k \in DOMAIN auditsByAddress \cup
                   {ToLowerCase(report.contractAddress)} |->
               IF k = ToLowerCase(report.contractAddress)
               THEN report.id
               ELSE auditsByAddress[k]]

\* a processContract that gives up after its debounce when stop is requested
DebounceDone_AbortsOnStop(a) ==
    /\ a.pc = "debounce"
    /\ IF AlreadyAudited(a.contractAddress) \/ stopRequested
       THEN EndAudit(a)
       ELSE MoveAudit(a, "fetching")
    /\ UNCHANGED << monitorState, stopRequested, config, mpc, toBlock,
                    blockNum, txIdx, auditQueue, wpc, auditsById,
                    auditsByAddress, tickLog >>
    /\ UNCHANGED libVars

\* monitor.ts:158-168 the debounce sleep ends: dedup test, then the fetch
DebounceDone(a) ==
    /\ a.pc = "debounce"
    /\ IF AlreadyAudited(a.contractAddress)
       THEN EndAudit(a)
       ELSE MoveAudit(a, "fetching")
    /\ UNCHANGED << monitorState, stopRequested, config, mpc, toBlock,
                    blockNum, txIdx, auditQueue, wpc, auditsById,
                    auditsByAddress, tickLog >>
    /\ UNCHANGED libVars

\* monitor.ts:168-195 getContractSource resolves (it never rejects):
\* found = FALSE is the null result
FetchReturns(a, found) ==
    /\ a.pc = "fetching"
    /\ IF found
       THEN /\ MoveAudit(a, "analyzing")
            /\ UNCHANGED << monitorState, auditsById, auditsByAddress >>
       ELSE /\ monitorState' =
                   [monitorState EXCEPT !.contractsSkipped = @ + 1]
            /\ PutReport(MinimalReport(a))
            /\ MoveAudit(a, "saveMinimal")
    /\ UNCHANGED << stopRequested, config, mpc, toBlock, blockNum, txIdx,
                    auditQueue, wpc, tickLog >>
    /\ UNCHANGED libVars

\* monitor.ts:199-207 analyzeContract resolves (it never rejects) and the
\* report enters the indexes
AnalyzeReturns(a, findings) ==
    /\ a.pc = "analyzing"
    /\ PutReport(FullReport(a, findings))
    /\ MoveAudit(a, "saveFull")
    /\ UNCHANGED << monitorState, stopRequested, config, mpc, toBlock,
                    blockNum, txIdx, auditQueue, wpc, tickLog >>
    /\ UNCHANGED libVars

\* a write after which the audited counter grows for a minimal report too
WriteReturns_CountsMinimal(a) ==
    /\ a.pc \in {"saveMinimal", "saveFull"}
    /\ monitorState' = [monitorState EXCEPT !.contractsAudited = @ + 1]
    /\ EndAudit(a)
    /\ UNCHANGED << stopRequested, config, mpc, toBlock, blockNum, txIdx,
                    auditQueue, wpc, auditsById, auditsByAddress, tickLog >>
    /\ UNCHANGED libVars

\* storage.ts:63 writeFile resolves; monitor.ts:191 or 225
WriteReturns(a) ==
    /\ a.pc \in {"saveMinimal", "saveFull"}
    /\ monitorState' =
           IF a.pc = "saveFull"
           THEN [monitorState EXCEPT !.contractsAudited = @ + 1]
           ELSE monitorState
    /\ EndAudit(a)
    /\ UNCHANGED << stopRequested, config, mpc, toBlock, blockNum, txIdx,
                    auditQueue, wpc, auditsById, auditsByAddress, tickLog >>
    /\ UNCHANGED libVars

\* storage.ts:63 writeFile rejects: caught at monitor.ts:230 (full report)
\* or at the worker boundary, monitor.ts:67 (minimal report)
WriteFails(a) ==
    /\ a.pc \in {"saveMinimal", "saveFull"}
    /\ EndAudit(a)
    /\ UNCHANGED << monitorState, stopRequested, config, mpc, toBlock,
                    blockNum, txIdx, auditQueue, wpc, auditsById,
                    auditsByAddress, tickLog >>
    /\ UNCHANGED libVars

\* ----------------------------------------------------------- rate limiter
\* basescan.ts:11 the test that the one-second window of the limiter is over
WindowOver(t, last) == t - last >= Second

\* basescan.ts:17 the delay a call over the limit asks setTimeout for
WaitTime(t, last) == Second - (t - last)

\* a timer whose callback is never run
TimerDue_Never(c) == FALSE

\* basescan.ts:18 the timer of the waiting call c has run out
TimerDue(c) == now >= callers[c].wakeAt

\* basescan.ts:10-23 a call of rateLimitWait up to its await, or to its end
\* when the call is within the limit
RateLimitEnter ==
    /\ Len(callers) < MaxCalls
    /\ now + Second <= Horizon
    /\ LET reset == WindowOver(now, lastRequestTime)
           last == IF reset THEN now ELSE lastRequestTime
           count == IF reset THEN 0 ELSE requestsThisSecond
       IN  /\ lastRequestTime' = last
           /\ IF count >= RateLimit
              THEN /\ requestsThisSecond' = count
                   /\ callers' = Append(callers,
                          [pc |-> "waiting", passedAt |-> 0,
                           wakeAt |-> now + WaitTime(now, last)])
              ELSE /\ requestsThisSecond' = count + 1
                   /\ callers' = Append(callers,
                          [pc |-> "passed", passedAt |-> now, wakeAt |-> 0])
    /\ UNCHANGED << now, monitorVars, fetchVars, analyzerVars, storeVars,
                    routeVars >>

\* basescan.ts:18-23 the timer of call c fires and the call runs to its end
TimerFires(c) ==
    /\ callers[c].pc = "waiting"
    /\ TimerDue(c)
    /\ requestsThisSecond' = 1
    /\ lastRequestTime' = now
    /\ callers' = [callers EXCEPT ![c].pc = "passed", ![c].passedAt = now]
    /\ UNCHANGED << now, monitorVars, fetchVars, analyzerVars, storeVars,
                    routeVars >>

\* half a second passes
Tick ==
    /\ now < Horizon
    /\ now' = now + 1
    /\ UNCHANGED << lastRequestTime, requestsThisSecond, callers, monitorVars,
                    fetchVars, analyzerVars, storeVars,
                    routeVars >>

NextLimiter ==
    \/ RateLimitEnter
    \/ \E c \in 1..Len(callers) : TimerFires(c)
    \/ Tick

\* the limiter under any number of callers entering at any times
SpecLimiter == Init /\ [][NextLimiter]_vars

\* setTimeout callbacks are run once they are due, and time passes
SpecLimiterLive ==
    /\ SpecLimiter
    /\ WF_vars(Tick)
    /\ \A c \in 1..MaxCalls : WF_vars(c <= Len(callers) /\ TimerFires(c))

\* ------------------------------------------------------ getContractSource
\* A text is the sequence of its lines and a line (or a name) the sequence of
\* the pieces a template literal builds it from.

\* the addresses Basescan is asked about
FetchAddresses == {"0xA", "0xB", "0xC", "0xD", "0xE", "0xF", "0x1", "0x2"}

\* the first element of data.result for each address, basescan.ts:54:
\* 0xA a verified contract, 0xB a multi-file one, 0xC a contract that is not
\* verified, 0xD a proxy of 0xA, 0xE a proxy of 0xC, 0xF a proxy of the proxy
\* 0xD, 0x1 and 0x2 two proxies of each other
Registry(address) ==
    CASE address = "0xA" ->
           [SourceCode |-> [format |-> "plain",
                            text |-> << <<"contract Bar {">>, <<"}">> >>],
            ContractName |-> "Bar", Proxy |-> "0", Implementation |-> ""]
      [] address = "0xB" ->
           [SourceCode |-> [format |-> "multi",
                            files |-> << [filename |-> "A.sol",
                                          content |-> << <<"library A {}">> >>],
                                         [filename |-> "B.sol",
                                          content |-> << <<"contract B {}">> >>] >>],
            ContractName |-> "", Proxy |-> "0", Implementation |-> "0xA"]
      [] address = "0xC" ->
           [SourceCode |-> [format |-> "plain", text |-> << >>],
            ContractName |-> "", Proxy |-> "0", Implementation |-> ""]
      [] address = "0xD" ->
           [SourceCode |-> [format |-> "plain",
                            text |-> << <<"contract Foo {}">> >>],
            ContractName |-> "Foo", Proxy |-> "1", Implementation |-> "0xA"]
      [] address = "0xE" ->
           [SourceCode |-> [format |-> "plain",
                            text |-> << <<"contract Qux {}">> >>],
            ContractName |-> "Qux", Proxy |-> "1", Implementation |-> "0xC"]
      [] address = "0xF" ->
           [SourceCode |-> [format |-> "plain",
                            text |-> << <<"contract Baz {}">> >>],
            ContractName |-> "Baz", Proxy |-> "1", Implementation |-> "0xD"]
      [] address = "0x1" ->
           [SourceCode |-> [format |-> "plain",
                            text |-> << <<"contract One {}">> >>],
            ContractName |-> "One", Proxy |-> "1", Implementation |-> "0x2"]
      [] address = "0x2" ->
           [SourceCode |-> [format |-> "plain",
                            text |-> << <<"contract Two {}">> >>],
            ContractName |-> "Two", Proxy |-> "1", Implementation |-> "0x1"]

\* the errors of basescan.ts:41-45: the 30 s abort and a rejected fetch at
\* line 41, a body that is no JSON at line 45
RequestErrors == {"AbortError", "TypeError"}
BodyErrors == {"SyntaxError"}

\* the null getContractSource resolves to
NullSource == [kind |-> "null"]

\* basescan.ts:122 parseMultiFileSource on the parsed files, joined by '\n\n'
RECURSIVE parseMultiFileSource(_)
parseMultiFileSource(files) ==
    IF files = << >> THEN << >>
    ELSE LET file == Head(files)
             rest == parseMultiFileSource(Tail(files))
         IN  << <<"// --- ", file.filename, " ---">> >> \o file.content
             \o (IF rest = << >> THEN << >> ELSE << << >> >> \o rest)

\* basescan.ts:62-77 the source text of a record
SourceText(SourceCode) ==
    IF SourceCode.format = "multi"
    THEN parseMultiFileSource(SourceCode.files)
    ELSE SourceCode.text

\* basescan.ts:79-93 the ContractSource built from a record
ContractSource(address, result) ==
    [kind |-> "source",
     contractAddress |-> address,
     contractName |-> IF result.ContractName = ""
                      THEN <<"Unknown">> ELSE <<result.ContractName>>,
     sourceCode |-> SourceText(result.SourceCode),
     isProxy |-> result.Proxy = "1",
     implementationAddress |-> result.Implementation]

\* a proxy's result that carries the implementation's text with no header
\* and keeps the proxy's name
SpliceProxy_ImplOnly(source, implSource) ==
    [source EXCEPT !.sourceCode = implSource.sourceCode]

\* basescan.ts:103-107 the implementation spliced into the proxy's result
SpliceProxy(source, implSource) ==
    [source EXCEPT
        !.sourceCode =
            << <<"// PROXY CONTRACT: ", source.contractAddress>>,
               <<"// IMPLEMENTATION: ", source.implementationAddress>>,
               << >> >> \o implSource.sourceCode,
        !.contractName =
            source.contractName \o <<" (Proxy -> ">>
                \o implSource.contractName \o <<")">>]

\* a catch clause that throws the error on
Caught_Rethrows(err) == [kind |-> "exception", name |-> err]

\* basescan.ts:112-119 the catch clause of getContractSource
Caught(err) == NullSource

\* the innermost getContractSource call
TopFrame == fetchStack[Len(fetchStack)]

\* the innermost call goes on to pc
SetTop(frame) == [fetchStack EXCEPT ![Len(fetchStack)] = frame]

\* basescan.ts:26-31 a caller (processContract or the /audit route) calls
\* getContractSource once its earlier call has settled
GetContractSource(address) ==
    /\ \/ fetchStack = << >>
       \/ Len(fetchStack) = 1 /\ TopFrame.pc = "settled"
    /\ fetchStack' = << [address |-> address, pc |-> "limiter",
                         value |-> NoResult] >>
    /\ fetchResult' = NoResult
    /\ httpCalls' = 0
    /\ UNCHANGED << monitorVars, limiterVars, analyzerVars, storeVars,
                    routeVars >>

\* basescan.ts:31-41 rateLimitWait resolves and the request is sent
LimiterPasses ==
    /\ fetchStack # << >>
    /\ TopFrame.pc = "limiter"
    /\ fetchStack' = SetTop([TopFrame EXCEPT !.pc = "http"])
    /\ httpCalls' = httpCalls + 1
    /\ UNCHANGED << fetchResult, monitorVars, limiterVars, analyzerVars,
                    storeVars,
                    routeVars >>

\* the innermost call is about to settle with v
Return(v) == SetTop([TopFrame EXCEPT !.pc = "returning", !.value = v])

\* basescan.ts:41 fetch rejects and the catch clause of line 112 runs
RequestFails(err) ==
    /\ fetchStack # << >>
    /\ TopFrame.pc = "http"
    /\ fetchStack' = Return(Caught(err))
    /\ UNCHANGED << fetchResult, httpCalls, monitorVars, limiterVars,
                    analyzerVars, storeVars,
                    routeVars >>

\* basescan.ts:41-45 fetch resolves and the body is read
ResponseArrives ==
    /\ fetchStack # << >>
    /\ TopFrame.pc = "http"
    /\ fetchStack' = SetTop([TopFrame EXCEPT !.pc = "json"])
    /\ UNCHANGED << fetchResult, httpCalls, monitorVars, limiterVars,
                    analyzerVars, storeVars,
                    routeVars >>

\* basescan.ts:45 response.json() rejects and the catch clause runs
BodyFails(err) ==
    /\ fetchStack # << >>
    /\ TopFrame.pc = "json"
    /\ fetchStack' = Return(Caught(err))
    /\ UNCHANGED << fetchResult, httpCalls, monitorVars, limiterVars,
                    analyzerVars, storeVars,
                    routeVars >>

\* basescan.ts:45-111 response.json() resolves to a body of the given
\* status: the call returns, or awaits the getContractSource call it makes
\* for the implementation (line 100)
BodyParsed(status) ==
    /\ fetchStack # << >>
    /\ TopFrame.pc = "json"
    /\ LET result == Registry(TopFrame.address)
           source == ContractSource(TopFrame.address, result)
       IN  IF status # "1" \/ source.sourceCode = << >>
           THEN fetchStack' = Return(NullSource)
           ELSE IF source.isProxy /\ source.implementationAddress # ""
           THEN /\ Len(fetchStack) < MaxDepth
                /\ fetchStack' =
                       Append(SetTop([TopFrame EXCEPT !.pc = "impl",
                                                      !.value = source]),
                              [address |-> source.implementationAddress,
                               pc |-> "limiter", value |-> NoResult])
           ELSE fetchStack' = Return(source)
    /\ UNCHANGED << fetchResult, httpCalls, monitorVars, limiterVars,
                    analyzerVars, storeVars,
                    routeVars >>

\* basescan.ts:100-111 the promise of the innermost call settles: its caller
\* resumes at line 101, or line 34 when the promise rejected; the outermost
\* call hands its outcome to the caller of the fetch
CallReturns ==
    /\ fetchStack # << >>
    /\ TopFrame.pc = "returning"
    /\ IF Len(fetchStack) = 1
       THEN /\ fetchResult' = TopFrame.value
            /\ fetchStack' = SetTop([TopFrame EXCEPT !.pc = "settled"])
       ELSE LET implSource == TopFrame.value
                parent == fetchStack[Len(fetchStack) - 1]
                value ==
                    IF implSource.kind = "exception"
                    THEN Caught(implSource.name)
                    ELSE IF implSource.kind = "source"
                    THEN SpliceProxy(parent.value, implSource)
                    ELSE parent.value
            IN  /\ fetchStack' =
                       Append(SubSeq(fetchStack, 1, Len(fetchStack) - 2),
                              [parent EXCEPT !.pc = "returning",
                                             !.value = value])
                /\ UNCHANGED fetchResult
    /\ UNCHANGED << httpCalls, monitorVars, limiterVars, analyzerVars,
                    storeVars,
                    routeVars >>

NextFetch ==
    \/ \E address \in FetchAddresses : GetContractSource(address)
    \/ LimiterPasses
    \/ \E err \in RequestErrors : RequestFails(err)
    \/ ResponseArrives
    \/ \E err \in BodyErrors : BodyFails(err)
    \/ \E status \in {"1", "0"} : BodyParsed(status)
    \/ CallReturns

\* getContractSource over the records of Registry, one fetch at a time
SpecFetch == Init /\ [][NextFetch]_vars

\* ---------------------------------------------------------------- analyzer
\* A source text is the sequence of its characters: "x" an ordinary
\* character, "\n" a line feed, "D" the head of a declaration
\* ("contract Name {"), which the regular expression of analyzer.ts:174
\* matches at the start of the text or right after a line feed.
Chars == {"x", "\n", "D"}

\* the texts getContractSource can hand to analyzeContract
Sources == UNION { [1..n -> Chars] : n \in 1..MaxLen }

\* String.prototype.trim
Trim(t) ==
    LET ks == {i \in 1..Len(t) : t[i] # "\n"}
    IN  IF ks = {} THEN << >>
        ELSE SubSeq(t, CHOOSE i \in ks : \A k \in ks : i <= k,
                       CHOOSE j \in ks : \A k \in ks : k <= j)

\* String.prototype.split('\n')
RECURSIVE Split(_)
Split(t) ==
    LET nl == {i \in 1..Len(t) : t[i] = "\n"}
    IN  IF nl = {} THEN << t >>
        ELSE LET i == CHOOSE i \in nl : \A k \in nl : i <= k
             IN  << SubSeq(t, 1, i - 1) >> \o Split(SubSeq(t, i + 1, Len(t)))

\* analyzer.ts:212-222 the loop of splitByLines over the lines left, and the
\* push of the last chunk
RECURSIVE SplitLoop(_, _, _, _)
SplitLoop(lines, maxLength, out, current) ==
    IF lines = << >>
    THEN IF current # << >> THEN Append(out, current) ELSE out
    ELSE LET line == Head(lines)
             full == Len(current) + Len(line) + 1 > maxLength
                         /\ Len(current) > 0
             out1 == IF full THEN Append(out, current) ELSE out
             cur1 == IF full THEN << >> ELSE current
         IN  SplitLoop(Tail(lines), maxLength, out1,
                       cur1 \o (IF cur1 # << >> THEN << "\n" >> ELSE << >>)
                            \o line)

\* analyzer.ts:207 splitByLines
splitByLines(text, maxLength) ==
    SplitLoop(Split(text), maxLength, << >>, << >>)

\* analyzer.ts:174-175 match.index + 1 of every match of contractRegex
MatchStarts(t) ==
    {i \in 1..Len(t) :
        \/ i = 1 /\ t[1] = "D"
        \/ t[i] = "\n" /\ i < Len(t) /\ t[i + 1] = "D"}

\* the elements of a set of numbers in ascending order
RECURSIVE Ascending(_)
Ascending(S) ==
    IF S = {} THEN << >>
    ELSE LET m == CHOOSE i \in S : \A k \in S : i <= k
         IN  << m >> \o Ascending(S \ {m})

\* analyzer.ts:182-193 the chunks of the declarations from the i-th on
RECURSIVE DeclarationChunks(_, _, _)
DeclarationChunks(t, starts, i) ==
    IF i > Len(starts) THEN << >>
    ELSE LET end == IF i < Len(starts) THEN starts[i + 1] - 1 ELSE Len(t)
             chunk == SubSeq(t, starts[i], end)
         IN  (IF Len(chunk) <= MAX_SOURCE_LENGTH
              THEN << chunk >>
              ELSE splitByLines(chunk, MAX_SOURCE_LENGTH))
             \o DeclarationChunks(t, starts, i + 1)

\* analyzer.ts:197 the preamble: the trimmed text before the first match
Preamble(t) ==
    LET starts == Ascending(MatchStarts(t))
    IN  IF starts # << >> /\ starts[1] > 1
        THEN Trim(SubSeq(t, 1, starts[1] - 1))
        ELSE << >>

\* analyzer.ts:170 chunkSourceCode
chunkSourceCode(t) ==
    LET starts == Ascending(MatchStarts(t))
        units == DeclarationChunks(t, starts, 1)
    IN  IF Len(starts) <= 1
        THEN splitByLines(t, MAX_SOURCE_LENGTH)
        ELSE IF Preamble(t) # << >> /\ units # << >>
        THEN << Preamble(t) \o << "\n", "\n" >> \o units[1] >>
                 \o Tail(units)
        ELSE units

\* confidenceThreshold and the confidence of a finding, in tenths
Thresholds == {0, 7}

\* a number, null, or undefined (the key is missing)
Num(n) == [type |-> "number", value |-> n]
Null == [type |-> "null", value |-> 0]
Undefined == [type |-> "undefined", value |-> 0]

\* the objects a response of the model holds: JSON.parse checks neither
\* severity nor confidence (analyzer.ts:161)
Elements ==
    { [severity |-> "critical", confidence |-> Num(9)],
      [severity |-> "low", confidence |-> Num(5)],
      [severity |-> "info", confidence |-> Num(9)],
      [severity |-> "high", confidence |-> Null],
      [severity |-> "medium", confidence |-> Undefined] }

\* what a chunk's request comes to: a parsed JSON array, a text with no
\* array or none that parses, a failed request
Responses ==
    { [kind |-> "array", findings |-> f] :
        f \in UNION { [1..n -> Elements] : n \in 0..MaxFindings } }
    \cup { [kind |-> "noarray", findings |-> << >>],
           [kind |-> "error", findings |-> << >>] }

\* the >= of analyzer.ts:163 with its conversion of the left operand to a
\* number: undefined becomes NaN, which compares false; null becomes 0
AtLeast(confidence, threshold) ==
    /\ confidence.type # "undefined"
    /\ confidence.value >= threshold

\* Array.prototype.filter with the test of analyzer.ts:163
RECURSIVE FilterByConfidence(_, _)
FilterByConfidence(findings, threshold) ==
    IF findings = << >> THEN << >>
    ELSE (IF AtLeast(Head(findings).confidence, threshold)
          THEN << Head(findings) >> ELSE << >>)
         \o FilterByConfidence(Tail(findings), threshold)

\* analyzer.ts:152 parseFindings; analyzer.ts:99 and 142 for a failed request
parseFindings(response, threshold) ==
    IF response.kind = "array"
    THEN FilterByConfidence(response.findings, threshold)
    ELSE << >>

\* index.ts:250-254 the risk of an on-demand report
onDemandOverallRisk(findings) ==
    LET some(sev) == \E i \in 1..Len(findings) : findings[i].severity = sev
    IN  IF some("critical") THEN "critical"
        ELSE IF some("high") THEN "high"
        ELSE IF some("medium") THEN "medium"
        ELSE IF some("low") THEN "low"
        ELSE "none"

\* index.ts:275-291 the report of the /audit route
OnDemandReport(id, address, findings) ==
    [id |-> id, contractAddress |-> ToLowerCase(address),
     sourceAvailable |-> TRUE, findings |-> findings,
     overallRisk |-> onDemandOverallRisk(findings)]

\* analyzer.ts:6-21 analyzeContract is called on a source: one chunk, or
\* the chunks of chunkSourceCode (a behaviour follows one call)
AnalyzeContract(src, threshold) ==
    /\ chunks = << >>
    /\ sourceCode' = src
    /\ confidenceThreshold' = threshold
    /\ chunks' = IF Len(src) <= MAX_SOURCE_LENGTH
                 THEN << src >>
                 ELSE chunkSourceCode(src)
    /\ llmFindings' = << >>
    /\ allFindings' = << >>
    /\ savedReport' = NoResult
    /\ UNCHANGED << monitorVars, limiterVars, fetchVars, storeVars,
                    routeVars >>

\* analyzer.ts:24-31 and 37-150 the request for the next chunk settles
ChunkAnalyzed(response) ==
    /\ Len(llmFindings) < Len(chunks)
    /\ llmFindings' = Append(llmFindings, response)
    /\ allFindings' =
           allFindings \o parseFindings(response, confidenceThreshold)
    /\ UNCHANGED << sourceCode, chunks, confidenceThreshold, savedReport,
                    monitorVars, limiterVars, fetchVars, storeVars,
                    routeVars >>

\* analyzeContract has returned and its caller builds the report it saves:
\* processContract (monitor.ts:199-223) or the /audit route (index.ts:246-294)
ReportBuilt(onDemand) ==
    /\ chunks # << >>
    /\ Len(llmFindings) = Len(chunks)
    /\ savedReport = NoResult
    /\ savedReport' =
           IF onDemand
           THEN OnDemandReport(1, Address(1), allFindings)
           ELSE FullReport([seq |-> 1, contractAddress |-> Address(1)],
                           allFindings)
    /\ UNCHANGED << sourceCode, chunks, confidenceThreshold, llmFindings,
                    allFindings, monitorVars, limiterVars, fetchVars, storeVars,
                    routeVars >>

\* the chunker over every source text, with an analyzer that finds nothing
NextChunker ==
    \/ \E src \in Sources : AnalyzeContract(src, 7)
    \/ ChunkAnalyzed([kind |-> "array", findings |-> << >>])
    \/ ReportBuilt(FALSE)

SpecChunker == Init /\ [][NextChunker]_vars

\* a source of one chunk and a source of two
FindingSources ==
    { << "D", "x" >>, << "x", "x", "\n", "x", "x", "x" >> }

\* the findings of every response, on one chunk and on two
NextFindings ==
    \/ \E src \in FindingSources : \E threshold \in Thresholds :
           AnalyzeContract(src, threshold)
    \/ \E response \in Responses : ChunkAnalyzed(response)
    \/ \E onDemand \in BOOLEAN : ReportBuilt(onDemand)

SpecFindings == Init /\ [][NextFindings]_vars

\* ------------------------------------------------------------------ store
\* the addresses reports are saved under
StoreAddresses == {Address(1), Address(2)}

\* the reports the callers of saveAudit build for an address under a fresh
\* id: processContract with the address of the receipt (monitor.ts:175 and
\* 207), the /audit route with the address in lower case (index.ts:275)
ReportsFor(id, address) ==
    LET d == [seq |-> id, contractAddress |-> address]
    IN  {MinimalReport(d)}
        \cup {FullReport(d, f) : f \in AnalyzerOutputs}
        \cup {OnDemandReport(id, address, f) : f \in AnalyzerOutputs}

\* storage.ts:58-60 a call of saveAudit: the indexes are set before its await
SaveAudit(report) ==
    /\ Len(putLog) < MaxPuts
    /\ PutReport(report)
    /\ putLog' = Append(putLog, report)
    /\ UNCHANGED << monitorState, stopRequested, config, mpc, toBlock,
                    blockNum, txIdx, auditQueue, processingAudits, wpc,
                    audits, tickLog, limiterVars, fetchVars, analyzerVars,
                    dataDir, routeVars >>

NextStore ==
    \E address \in StoreAddresses :
        \E report \in ReportsFor(Len(putLog) + 1, address) :
            SaveAudit(report)

\* the store under any sequence of saveAudit calls
SpecStore == Init /\ [][NextStore]_vars

\* ----------------------------------------------------------- data directory
\* the ids of the report files of the data directory
Written == {dataDir[j] : j \in 1..Len(dataDir)}

\* storage.ts:62-63 the writeFile of the i-th saveAudit call resolves: the
\* call was made by the running process (its report is in the index since
\* line 59) and its file <id>.json now exists. A writeFile that rejects, or
\* that is cut by the end of the process, is a call whose file never appears.
FileWritten(i) ==
    /\ putLog[i] \in auditsById
    /\ i \notin Written
    /\ dataDir' = Append(dataDir, putLog[i].id)
    /\ UNCHANGED << monitorVars, limiterVars, fetchVars, analyzerVars, putLog,
                    routeVars >>

\* storage.ts:37-38 what readdir can return: the files in any order
ReadDir ==
    {files \in [1..Len(dataDir) -> Written] :
        \A j, k \in 1..Len(dataDir) : files[j] = files[k] => j = k}

\* storage.ts:40-46 the by-address index after the loop over the files: each
\* file sets the entry of its lower-cased address, so the last one read stays
LoadedByAddress(files) ==
    LET key(j) == ToLowerCase(putLog[files[j]].contractAddress)
    IN  [k \in {key(j) : j \in 1..Len(files)} |->
            files[SetMax({j \in 1..Len(files) : key(j) = k})]]

\* index.ts:36 and storage.ts:35-56 a new process starts: its indexes are
\* empty (storage.ts:7-8) and loadAudits fills them from the files, in the
\* order of readdir, before anything else runs
LoadAudits(files) ==
    /\ auditsById' = {putLog[id] : id \in Written}
    /\ auditsByAddress' = LoadedByAddress(files)
    /\ UNCHANGED << monitorState, stopRequested, config, mpc, toBlock,
                    blockNum, txIdx, auditQueue, processingAudits, wpc,
                    audits, tickLog, limiterVars, fetchVars, analyzerVars,
                    storeVars, routeVars >>

\* the reports saved for an address across restarts: the minimal report of
\* the pipeline (monitor.ts:175) and a later report of the /audit route
\* (index.ts:219 passes an address whose report has no source, index.ts:275)
ReloadReports(id, address) ==
    {MinimalReport([seq |-> id, contractAddress |-> address]),
     OnDemandReport(id, ToLowerCase(address), << >>)}

NextReload ==
    \/ \E address \in StoreAddresses :
           \E report \in ReloadReports(Len(putLog) + 1, address) :
               SaveAudit(report)
    \/ \E i \in 1..Len(putLog) : FileWritten(i)
    \/ \E files \in ReadDir : LoadAudits(files)

\* the store and its data directory across restarts of the process
SpecReload == Init /\ [][NextReload]_vars

\* ------------------------------------------------------------ /audit route
\* index.ts:203 the address of a request body: an address of the store in
\* either spelling, or (NullAddress) none or an ill-formed one
RouteInputs ==
    StoreAddresses \cup {ToLowerCase(a) : a \in StoreAddresses}
        \cup {NullAddress}

\* index.ts:218-219 the dedup test of the route: a report with its source
Cached(address) ==
    \E r \in getAuditById(getAuditByAddress(address)) : r.sourceAvailable

\* res.json / res.status(..).json: the handler replies
Reply(address, status, audit) ==
    replies' = Append(replies, [address |-> address, status |-> status,
                                audit |-> audit])

\* the handler q stands at pc
MoveRequest(q, pc) == route' = (route \ {q}) \cup {[q EXCEPT !.pc = pc]}

\* index.ts:202-230 a POST /audit arrives: validation, dedup test, then the
\* call of getContractSource
AuditRequested(address) ==
    /\ Len(replies) + Cardinality(route) < MaxRequests
    /\ LET addrClean == ToLowerCase(address)
       IN  IF address = NullAddress
           THEN Reply(address, "400", 0) /\ UNCHANGED route
           ELSE IF Cached(addrClean)
           THEN /\ Reply(addrClean, "cached", getAuditByAddress(addrClean))
                /\ UNCHANGED route
           ELSE /\ route' = route \cup
                       {[req |-> Len(replies) + Cardinality(route) + 1,
                         address |-> addrClean, pc |-> "fetching",
                         findings |-> << >>, id |-> 0]}
                /\ UNCHANGED replies
    /\ UNCHANGED << monitorVars, limiterVars, fetchVars, analyzerVars,
                    storeVars >>

\* index.ts:230-246 getContractSource resolves (it never rejects): null is
\* answered 404 and nothing is saved, a source goes to analyzeContract
SourceReturns(q, found) ==
    /\ q.pc = "fetching"
    /\ IF found
       THEN MoveRequest(q, "analyzing") /\ UNCHANGED replies
       ELSE route' = route \ {q} /\ Reply(q.address, "404", 0)
    /\ UNCHANGED << monitorVars, limiterVars, fetchVars, analyzerVars,
                    storeVars >>

\* index.ts:246-294 analyzeContract resolves (it never rejects), the report
\* is built and saveAudit sets the indexes (storage.ts:59-60)
AnalysisReturns(q, findings) ==
    /\ q.pc = "analyzing"
    /\ LET audit == OnDemandReport(Len(putLog) + 1, q.address, findings)
       IN  /\ PutReport(audit)
           /\ putLog' = Append(putLog, audit)
           /\ route' = (route \ {q}) \cup
                  {[q EXCEPT !.pc = "saving", !.findings = findings,
                             !.id = audit.id]}
    /\ UNCHANGED << monitorState, stopRequested, config, mpc, toBlock,
                    blockNum, txIdx, auditQueue, processingAudits, wpc,
                    audits, tickLog, limiterVars, fetchVars, analyzerVars,
                    dataDir, replies >>

\* storage.ts:63 and index.ts:298 writeFile resolves: the success reply
AuditSaved(q) ==
    /\ q.pc = "saving"
    /\ dataDir' = Append(dataDir, q.id)
    /\ route' = route \ {q}
    /\ Reply(q.address, "success", q.id)
    /\ UNCHANGED << monitorVars, limiterVars, fetchVars, analyzerVars, putLog >>

\* storage.ts:63 writeFile rejects: caught at index.ts:303 and answered 500,
\* the report stays in the indexes
AuditSaveFails(q) ==
    /\ q.pc = "saving"
    /\ route' = route \ {q}
    /\ Reply(q.address, "500", q.id)
    /\ UNCHANGED << monitorVars, limiterVars, fetchVars, analyzerVars,
                    storeVars >>

NextOnDemand ==
    \/ \E address \in StoreAddresses :
           \E report \in ReloadReports(Len(putLog) + 1, address) :
               SaveAudit(report)
    \/ \E address \in RouteInputs : AuditRequested(address)
    \/ \E q \in route : \E found \in BOOLEAN : SourceReturns(q, found)
    \/ \E q \in route : \E findings \in AnalyzerOutputs :
           AnalysisReturns(q, findings)
    \/ \E q \in route : AuditSaved(q)
    \/ \E q \in route : AuditSaveFails(q)

\* the /audit route over every content of the store
SpecOnDemand == Init /\ [][NextOnDemand]_vars

\* ------------------------------------------------------------------- Next
Next ==
    \/ StartMonitor
    \/ \E h \in 1..MaxBlock : StartReturns(h)
    \/ StartFails
    \/ StopMonitor
    \/ \E h \in 1..MaxBlock : HeightReturns(h)
    \/ HeightFails
    \/ BlockReturns
    \/ BlockFails
    \/ ReceiptReturns
    \/ ReceiptFails
    \/ GetCodeSettles
    \/ SleepDone
    \/ \E r \in 1..Len(wpc) : WorkerWake(r)
    \/ \E a \in audits : DebounceDone(a)
    \/ \E a \in audits : \E found \in BOOLEAN : FetchReturns(a, found)
    \/ \E a \in audits : \E f \in AnalyzerOutputs : AnalyzeReturns(a, f)
    \/ \E a \in audits : WriteReturns(a)
    \/ \E a \in audits : WriteFails(a)

Spec == Init /\ [][Next]_vars

\* ------------------------------------------------- component specifications
\* The polling loop alone: startMonitor, stopMonitor and every step of the
\* loop of monitor.ts:76-145. The loop reads nothing the worker pool writes,
\* so the deployments it enqueues stay in the queue.
NextMonitor ==
    \/ StartMonitor
    \/ \E h \in 1..MaxBlock : StartReturns(h)
    \/ StartFails
    \/ StopMonitor
    \/ \E h \in 1..MaxBlock : HeightReturns(h)
    \/ HeightFails
    \/ BlockReturns
    \/ BlockFails
    \/ ReceiptReturns
    \/ ReceiptFails
    \/ GetCodeSettles
    \/ SleepDone

SpecMonitor == Init /\ [][NextMonitor]_vars

\* heights of a chain that stands at block 1 when the monitor first starts
\* and grows by one block, the one holding the deployments
SteadyHeights == {1, 2}

\* The audit pipeline on that chain: the whole worker pool, processContract
\* and the store, fed by the polling loop over an RPC endpoint whose only
\* failures are lost receipts.
NextPipeline ==
    \/ StartMonitor
    \/ \E h \in SteadyHeights : StartReturns(h)
    \/ StopMonitor
    \/ \E h \in SteadyHeights : HeightReturns(h)
    \/ BlockReturns
    \/ ReceiptReturns
    \/ ReceiptFails
    \/ GetCodeSettles
    \/ SleepDone
    \/ \E r \in 1..Len(wpc) : WorkerWake(r)
    \/ \E a \in audits : DebounceDone(a)
    \/ \E a \in audits : \E found \in BOOLEAN : FetchReturns(a, found)
    \/ \E a \in audits : \E f \in AnalyzerOutputs : AnalyzeReturns(a, f)
    \/ \E a \in audits : WriteReturns(a)
    \/ \E a \in audits : WriteFails(a)

SpecPipeline == Init /\ [][NextPipeline]_vars

\* a step of a dispatched audit on an explorer that has no verified source:
\* processContract from its debounce to its minimal report
AuditStep ==
    \/ \E a \in audits : DebounceDone(a)
    \/ \E a \in audits : FetchReturns(a, FALSE)
    \/ \E a \in audits : WriteReturns(a)

\* The queue between the polling loop and the worker pool: the loop enqueues
\* what it finds on the chain of SteadyHeights, with an RPC endpoint that
\* does not fail, and the pool dispatches it.
NextDispatch ==
    \/ StartMonitor
    \/ \E h \in SteadyHeights : StartReturns(h)
    \/ StopMonitor
    \/ \E h \in SteadyHeights : HeightReturns(h)
    \/ BlockReturns
    \/ ReceiptReturns
    \/ GetCodeSettles
    \/ SleepDone
    \/ \E r \in 1..Len(wpc) : WorkerWake(r)
    \/ AuditStep

SpecDispatch == Init /\ [][NextDispatch]_vars

\* heights of a chain that grows from block 1 to block 2 and then to block
\* 4: two blocks with deployments, scanned in one tick or in two
GrowingHeights == {2, 4}

\* The queue fed from several blocks: the loop on the chain of
\* GrowingHeights, with receipts that can be lost, and the pool.
NextOrder ==
    \/ StartMonitor
    \/ StartReturns(1)
    \/ StopMonitor
    \/ \E h \in GrowingHeights : HeightReturns(h)
    \/ BlockReturns
    \/ ReceiptReturns
    \/ ReceiptFails
    \/ GetCodeSettles
    \/ SleepDone
    \/ \E r \in 1..Len(wpc) : WorkerWake(r)
    \/ AuditStep

SpecOrder == Init /\ [][NextOrder]_vars

\* The timer of each processAudits loop fires (sleep(1000), monitor.ts:58)
\* and every dispatched audit goes on to its end.
SpecDispatchLive ==
    /\ SpecDispatch
    /\ \A r \in 1..MaxRuns : WF_vars(r <= Len(wpc) /\ WorkerWake(r))
    /\ WF_vars(AuditStep)

\* The monitor's pipeline next to the /audit route: the polling loop on the
\* chain of SteadyHeights with an RPC endpoint that does not fail and no
\* stop request, the pool and its audits, and on-demand audits requested
\* while they run.
NextCounters ==
    \/ StartMonitor
    \/ \E h \in SteadyHeights : StartReturns(h)
    \/ \E h \in SteadyHeights : HeightReturns(h)
    \/ BlockReturns
    \/ ReceiptReturns
    \/ GetCodeSettles
    \/ SleepDone
    \/ \E r \in 1..Len(wpc) : WorkerWake(r)
    \/ \E a \in audits : DebounceDone(a)
    \/ \E a \in audits : \E found \in BOOLEAN : FetchReturns(a, found)
    \/ \E a \in audits : \E f \in AnalyzerOutputs : AnalyzeReturns(a, f)
    \/ \E a \in audits : WriteReturns(a)
    \/ \E a \in audits : WriteFails(a)
    \/ AuditRequested(Address(1))
    \/ \E q \in route : \E found \in BOOLEAN : SourceReturns(q, found)
    \/ \E q \in route : \E findings \in AnalyzerOutputs :
           AnalysisReturns(q, findings)
    \/ \E q \in route : AuditSaved(q)
    \/ \E q \in route : AuditSaveFails(q)

SpecCounters == Init /\ [][NextCounters]_vars

\* ------------------------------------------------------------ properties
Marker == monitorState.lastProcessedBlock

\* the blocks of a tick's log whose transactions were scanned
ScannedBlocks(log) ==
    {log[i].block : i \in {j \in 1..Len(log) : log[j].result = "scanned"}}

\* the step ends a tick by moving the marker (monitor.ts:138)
TickMovesMarker == mpc' = "sleep" /\ Marker' # Marker

InBlockLoop == mpc \in {"getBlock", "receipt", "getCode"}

\* C1: whenever a tick updates the last-processed-block marker, the new value
\* is the highest block whose transactions were scanned in that tick.
C1_MarkerIsHighestScanned ==
    [][ TickMovesMarker =>
          /\ ScannedBlocks(tickLog') # {}
          /\ Marker' = SetMax(ScannedBlocks(tickLog')) ]_vars

\* C2: once stop is requested inside a block range, no further block of the
\* range is fetched, and the marker the tick leaves is the last block that was
\* scanned in full (the old marker when none was), not the top of the range.
C2_StopLeavesMarkerAtLastScanned ==
    [][ (stopRequested /\ InBlockLoop) =>
          /\ Len(tickLog') <= Len(tickLog)
          /\ mpc' = "sleep" =>
                Marker' = IF ScannedBlocks(tickLog') = {}
                          THEN Marker
                          ELSE SetMax(ScannedBlocks(tickLog')) ]_vars

\* C3 as stated: a tick that ends with no stop requested has scanned the
\* transactions of every block L+1..H.
C3_EveryBlockScanned ==
    [][ (TickMovesMarker /\ ~stopRequested) =>
          ScannedBlocks(tickLog') = (Marker + 1)..Marker' ]_vars

\* C3 amended: the getBlock calls of a tick are for L+1, L+2, ... in this
\* order, one at a time, each earlier one settled before the next is made;
\* a tick that ends with no stop requested has made the call for every block
\* up to H, and each of these blocks was scanned unless its getBlock call
\* failed.
C3_BlocksVisitedInOrder ==
    [][ /\ (tickLog' # tickLog /\ tickLog' # << >>) =>
              \A i \in 1..Len(tickLog') :
                  /\ tickLog'[i].block = Marker + i
                  /\ i < Len(tickLog') =>
                        tickLog'[i].result \in {"scanned", "failed"}
        /\ (TickMovesMarker /\ ~stopRequested) =>
              /\ Len(tickLog') = Marker' - Marker
              /\ \A i \in 1..Len(tickLog') :
                    tickLog'[i].result \in {"scanned", "failed"} ]_vars

\* a tick over two blocks or more ended with no stop requested, one block
\* scanned, one lost to a failed getBlock, and deployments pending
C3_Witness ==
    /\ mpc = "sleep"
    /\ ~stopRequested
    /\ Len(tickLog) >= 2
    /\ \E i, j \in 1..Len(tickLog) :
          tickLog[i].result = "scanned" /\ tickLog[j].result = "failed"
    /\ Len(auditQueue[cur]) >= 2

\* C4 as stated: the marker never decreases, restarts included.
C4_MarkerNeverDecreases == [][ Marker' >= Marker ]_vars

\* C4 amended: the marker never decreases while the monitor runs nor, when no
\* starting block is configured, across a stop and a restart; a start with a
\* configured starting block sets the marker to that block.
C4_MarkerMonotoneBarStartBlock ==
    [][ /\ (monitorState.isRunning \/ config.startBlock = 0) =>
              Marker' >= Marker
        /\ (~monitorState.isRunning /\ monitorState'.isRunning
               /\ config.startBlock # 0) =>
              Marker' = config.startBlock ]_vars

\* the second run of a monitor with no configured starting block has ended a
\* tick that moved the marker
C4_Witness ==
    /\ config.startBlock = 0
    /\ Len(auditQueue) = 2
    /\ mpc = "sleep"
    /\ tickLog # << >>

\* C5: the audits in flight never exceed maxConcurrentAnalyses, restarts of
\* the monitor included.
C5_InFlightWithinCeiling ==
    Cardinality(audits) <= config.maxConcurrentAnalyses

\* the by-address index holds a report for the address
HasReport(address) == ToLowerCase(address) \in DOMAIN auditsByAddress

\* the audits whose source fetch or analyzer call is outstanding
ExternalCalls(as) == {a \in as : a.pc \in {"fetching", "analyzing"}}

\* every deployment ever enqueued has been dispatched and has settled
PipelineDrained ==
    /\ audits = {}
    /\ \A r \in 1..Len(auditQueue) : auditQueue[r] = << >>

\* C6: a worker whose deployment already has a report at its address when the
\* dedup test runs stores no report, starts no source fetch and no analyzer
\* call, and leaves the audited counter and the store unchanged.
C6_DuplicateLeavesStoreAlone ==
    [][ \A a \in audits :
          (DebounceDone(a) /\ HasReport(a.contractAddress)) =>
              /\ auditsById' = auditsById
              /\ auditsByAddress' = auditsByAddress
              /\ ExternalCalls(audits') = ExternalCalls(audits)
              /\ \A b \in audits' : b.seq # a.seq
              /\ monitorState'.contractsAudited =
                     monitorState.contractsAudited ]_vars

\* two deployments were detected, both audits have settled and the store
\* holds one report: the second audit was dropped at the dedup test
C6_Witness ==
    /\ PipelineDrained
    /\ monitorState.contractsFound = 2
    /\ Cardinality(auditsById) = 1
    /\ \A r \in 1..Len(processingAudits) : processingAudits[r] = 0

\* C7: a worker that drops a deployment at the dedup test adds exactly one to
\* contractsSkipped and changes no other counter.
C7_DuplicateCountsAsSkipped ==
    [][ \A a \in audits :
          (DebounceDone(a) /\ HasReport(a.contractAddress)) =>
              monitorState' =
                  [monitorState EXCEPT !.contractsSkipped = @ + 1] ]_vars

\* C8: when the source fetch returns not-found the worker stores exactly one
\* new report, for that address, with sourceAvailable false, no findings and
\* risk "none"; contractsSkipped grows by one, contractsAudited is unchanged
\* and no analyzer call is made.
C8_NotFoundStoresMinimalReport ==
    [][ \A a \in audits :
          FetchReturns(a, FALSE) =>
              /\ \E r \in auditsById' :
                    /\ r \notin auditsById
                    /\ auditsById' = auditsById \cup {r}
                    /\ r.contractAddress = a.contractAddress
                    /\ r.sourceAvailable = FALSE
                    /\ r.findings = << >>
                    /\ r.overallRisk = "none"
                    /\ auditsByAddress'[ToLowerCase(a.contractAddress)] = r.id
              /\ monitorState' =
                     [monitorState EXCEPT !.contractsSkipped = @ + 1]
              /\ \A b \in audits' : b.pc = "analyzing" => b \in audits ]_vars

\* an audit waits for the write of its minimal report, which the by-address
\* index returns, and contractsSkipped has counted it
C8_Witness ==
    \E a \in audits :
        /\ a.pc = "saveMinimal"
        /\ getAuditByAddress(a.contractAddress) = a.seq
        /\ \E r \in getAuditById(a.seq) : ~r.sourceAvailable
        /\ monitorState.contractsSkipped = 1
        /\ monitorState.contractsAudited = 0

\* the counter of each closure equals the number of its audits in flight
InFlightCounted ==
    \A r \in 1..Len(processingAudits) :
        processingAudits[r] = Cardinality({a \in audits : a.run = r})

\* C9: however a dispatched audit ends (duplicate, minimal report, full
\* report, exception), its closure's in-flight counter is decremented exactly
\* once and nothing else of the pool changes: the other audits and every
\* dequeue loop stay as they are. So the counter always equals the number of
\* audits in flight, and is 0 once they have all ended.
C9_EveryOutcomeDecrementsOnce ==
    /\ []InFlightCounted
    /\ [][ \A a \in audits :
             (\A b \in audits' : b.seq # a.seq) =>
                 /\ audits' = audits \ {a}
                 /\ processingAudits' =
                        [processingAudits EXCEPT ![a.run] = @ - 1]
                 /\ wpc' = wpc
                 /\ auditQueue' = auditQueue ]_vars

\* every audit has ended, one of them by a failed write of its full report
\* (the report is in the store and was never counted), and the counters of
\* all closures are back to 0
C9_Witness ==
    /\ PipelineDrained
    /\ monitorState.contractsFound >= 2
    /\ monitorState.contractsAudited = 0
    /\ \E r \in auditsById : r.sourceAvailable
    /\ \A r \in 1..Len(processingAudits) : processingAudits[r] = 0

\* C10: an audit that ends in an exception is not retried and leaves no
\* report of that attempt in the by-id and by-address indexes.
C10_FailedAuditLeavesNoReport ==
    [][ \A a \in audits :
          WriteFails(a) =>
              /\ \A b \in audits' : b.seq # a.seq
              /\ \A r \in 1..Len(auditQueue') :
                    \A i \in 1..Len(auditQueue'[r]) :
                        auditQueue'[r][i].seq # a.seq
              /\ \A rep \in auditsById' : rep.id # a.seq
              /\ \A k \in DOMAIN auditsByAddress' :
                    auditsByAddress'[k] # a.seq ]_vars

\* --------------------------------------------------- rate limiter properties
\* the calls that passed the limiter at a time in t..t+Second-1
PassedInWindow(t) ==
    {c \in 1..Len(callers) :
        /\ callers[c].pc = "passed"
        /\ callers[c].passedAt \in t..(t + Second - 1)}

\* C11: at most 5 calls pass the rate limiter within any rolling one-second
\* window, for any number of calls issued at any times.
C11_AtMostFivePerWindow ==
    \A t \in 0..Horizon : Cardinality(PassedInWindow(t)) <= RateLimit

\* the c-th call of rateLimitWait is suspended at its await
Waiting(c) == c <= Len(callers) /\ callers[c].pc = "waiting"

\* the c-th call of rateLimitWait has returned
Passed(c) == c <= Len(callers) /\ callers[c].pc = "passed"

\* C12: the rate limiter never drops a call: every call that waits in the
\* limiter eventually passes it, and a call that has passed stays passed.
C12_EveryCallPasses ==
    /\ \A c \in 1..MaxCalls : Waiting(c) ~> Passed(c)
    /\ [][ /\ Len(callers') >= Len(callers)
           /\ \A c \in 1..Len(callers) :
                 callers[c].pc = "passed" => callers'[c] = callers[c] ]_vars

\* seven calls were made at the same instant: five passed at once, the sixth
\* and the seventh waited and passed in the next window
C12_Witness ==
    /\ Len(callers) = 7
    /\ \A c \in 1..7 : callers[c].pc = "passed"
    /\ \A c \in 1..5 : callers[c].passedAt = Second /\ callers[c].wakeAt = 0
    /\ \A c \in 6..7 :
          callers[c].wakeAt = 2 * Second /\ callers[c].passedAt >= 2 * Second

\* ---------------------------------------------- getContractSource properties
\* the innermost getContractSource call is about to settle with v
Returning(v) ==
    /\ fetchStack # << >>
    /\ TopFrame.pc = "returning"
    /\ TopFrame.value = v

\* C13: getContractSource never hands an exception to its caller, at any
\* depth: a call whose request times out, is rejected or returns a body that
\* does not parse settles with null, for the address fetched as for a proxy's
\* implementation.
C13_FetchNeverThrows ==
    /\ [](fetchResult.kind \in {"none", "null", "source"})
    /\ [](\A i \in 1..Len(fetchStack) :
             fetchStack[i].value.kind \in {"none", "null", "source"})
    /\ [][ ((\E err \in RequestErrors : RequestFails(err))
               \/ (\E err \in BodyErrors : BodyFails(err))) =>
                 /\ Len(fetchStack') = Len(fetchStack)
                 /\ fetchStack'[Len(fetchStack')].pc = "returning"
                 /\ fetchStack'[Len(fetchStack')].value = NullSource ]_vars

\* the fetch of the proxy 0xD has settled with the proxy's own source after
\* two requests: the request for its implementation 0xA, a verified contract,
\* failed and that call resolved to null
C13_Witness ==
    /\ Len(fetchStack) = 1
    /\ TopFrame.pc = "settled"
    /\ TopFrame.address = "0xD"
    /\ httpCalls = 2
    /\ fetchResult.kind = "source"
    /\ fetchResult.sourceCode = << <<"contract Foo {}">> >>

\* C14: a fetch makes at most two requests: the implementation of a proxy is
\* fetched once and is not itself treated as a proxy.
C14_AtMostOneHop ==
    /\ httpCalls <= 2
    /\ Len(fetchStack) <= 2

\* C15: when the record fetched is flagged as a proxy with an implementation
\* address and the call for the implementation resolves to a source, the
\* call returns a source text made of two comment lines naming the proxy and
\* the implementation, an empty line and the implementation's source, under
\* the name "<ProxyName> (Proxy -> <ImplName>)"; the source and the name of
\* an implementation that is not flagged as a proxy are those of its record.
C15_ProxySplicesImplementation ==
    /\ [][ (/\ Len(fetchStack) >= 2
            /\ TopFrame.pc = "returning"
            /\ TopFrame.value.kind = "source") =>
              LET proxy == fetchStack[Len(fetchStack) - 1]
                  impl == TopFrame
                  ret == fetchStack'[Len(fetchStack')]
              IN  /\ Len(fetchStack') = Len(fetchStack) - 1
                  /\ ret.pc = "returning"
                  /\ ret.address = proxy.address
                  /\ ret.value.sourceCode =
                        << <<"// PROXY CONTRACT: ", proxy.address>>,
                           <<"// IMPLEMENTATION: ", impl.address>>,
                           << >> >> \o impl.value.sourceCode
                  /\ ret.value.contractName =
                        <<Registry(proxy.address).ContractName,
                          " (Proxy -> ">> \o impl.value.contractName
                            \o <<")">> ]_vars
    /\ [](\A i \in 1..Len(fetchStack) :
             (/\ fetchStack[i].pc = "returning"
              /\ fetchStack[i].value.kind = "source"
              /\ Registry(fetchStack[i].address).Proxy = "0") =>
                 /\ fetchStack[i].value.sourceCode =
                        SourceText(Registry(fetchStack[i].address).SourceCode)
                 /\ fetchStack[i].value.contractName \in
                        { <<Registry(fetchStack[i].address).ContractName>>,
                          <<"Unknown">> })

\* the fetch of the proxy 0xD, named Foo, of the contract 0xA, named Bar, has
\* settled with the spliced source under the name "Foo (Proxy -> Bar)"
C15_Witness ==
    /\ Len(fetchStack) = 1
    /\ TopFrame.pc = "settled"
    /\ TopFrame.address = "0xD"
    /\ fetchResult.kind = "source"
    /\ fetchResult.contractName = <<"Foo", " (Proxy -> ", "Bar", ")">>
    /\ fetchResult.sourceCode =
           << <<"// PROXY CONTRACT: ", "0xD">>,
              <<"// IMPLEMENTATION: ", "0xA">>,
              << >>,
              <<"contract Bar {">>, <<"}">> >>

\* ------------------------------------------------------- analyzer properties
\* the findings of a response whose confidence is a number at least the
\* threshold, in the order of the response
RECURSIVE Confident(_, _)
Confident(findings, threshold) ==
    IF findings = << >> THEN << >>
    ELSE (IF /\ Head(findings).confidence.type = "number"
             /\ Head(findings).confidence.value >= threshold
          THEN << Head(findings) >> ELSE << >>)
         \o Confident(Tail(findings), threshold)

\* the confident findings of the responses from the i-th on, chunk by chunk
RECURSIVE ConfidentOfAll(_, _, _)
ConfidentOfAll(responses, threshold, i) ==
    IF i > Len(responses) THEN << >>
    ELSE Confident(responses[i].findings, threshold)
         \o ConfidentOfAll(responses, threshold, i + 1)

\* C16: the findings of a report are exactly the analyzer's findings whose
\* confidence is at least the threshold, in their order; no finding with a
\* lower confidence or with no confidence value is in a report, built by the
\* pipeline or by the /audit route.
C16_ReportKeepsConfidentFindings ==
    savedReport # NoResult =>
        /\ savedReport.findings =
               ConfidentOfAll(llmFindings, confidenceThreshold, 1)
        /\ \A i \in 1..Len(savedReport.findings) :
              /\ savedReport.findings[i].confidence.type = "number"
              /\ savedReport.findings[i].confidence.value
                     >= confidenceThreshold

\* the severities, lowest first
SeverityRank(severity) ==
    CASE severity = "critical" -> 4
      [] severity = "high" -> 3
      [] severity = "medium" -> 2
      [] severity = "low" -> 1
      [] OTHER -> 0

\* C17: the overall risk of a report is the highest severity among its
\* findings (critical > high > medium > low) and is "none" exactly when the
\* report has no findings, whatever severities the analyzer returned.
C17_RiskIsHighestSeverity ==
    savedReport # NoResult =>
        /\ savedReport.overallRisk = "none" <=> savedReport.findings = << >>
        /\ savedReport.findings # << >> =>
              /\ \E i \in 1..Len(savedReport.findings) :
                    savedReport.findings[i].severity = savedReport.overallRisk
              /\ \A i \in 1..Len(savedReport.findings) :
                    SeverityRank(savedReport.findings[i].severity)
                        <= SeverityRank(savedReport.overallRisk)

\* C18: every chunk submitted to the analyzer is at most MAX_SOURCE_LENGTH
\* long, the first chunk with its preamble included, and a source that fits
\* is submitted as one chunk, the source itself.
C18_ChunksWithinMaximum ==
    /\ \A i \in 1..Len(chunks) : Len(chunks[i]) <= MAX_SOURCE_LENGTH
    /\ (chunks # << >> /\ Len(sourceCode) <= MAX_SOURCE_LENGTH) =>
           chunks = << sourceCode >>

\* the lines of the chunks from the i-th on, chunk after chunk
RECURSIVE LinesOf(_, _)
LinesOf(cs, i) ==
    IF i > Len(cs) THEN << >> ELSE Split(cs[i]) \o LinesOf(cs, i + 1)

\* the texts from the i-th on, one after the other
RECURSIVE Concat(_, _)
Concat(cs, i) ==
    IF i > Len(cs) THEN << >> ELSE cs[i] \o Concat(cs, i + 1)

\* the source is too long for one chunk and has been chunked
Oversized == chunks # << >> /\ Len(sourceCode) > MAX_SOURCE_LENGTH

\* the chunks without the preamble and the two line feeds put at the head of
\* the first one
WithoutPreamble(cs, t) ==
    IF Preamble(t) # << >> /\ cs # << >>
    THEN << SubSeq(cs[1], Len(Preamble(t)) + 3, Len(cs[1])) >> \o Tail(cs)
    ELSE cs

\* every declaration of the text, up to the next one, fits in a chunk
UnitsFit(t) ==
    LET starts == Ascending(MatchStarts(t))
    IN  \A i \in 1..Len(starts) :
            (IF i < Len(starts) THEN starts[i + 1] ELSE Len(t) + 1)
                - starts[i] <= MAX_SOURCE_LENGTH

\* C19: the chunks of an oversized source cover it exactly. Split by lines
\* (at most one declaration), the lines of the chunks are the lines of the
\* source, blank lines included, in order and each in one chunk; split at
\* declarations that each fit, the chunks without the preamble, one after
\* the other, are the source from its first declaration on.
C19_ChunksCoverSource ==
    Oversized =>
        IF Cardinality(MatchStarts(sourceCode)) <= 1
        THEN LinesOf(chunks, 1) = Split(sourceCode)
        ELSE UnitsFit(sourceCode) =>
                Concat(WithoutPreamble(chunks, sourceCode), 1) =
                    SubSeq(sourceCode,
                           Ascending(MatchStarts(sourceCode))[1],
                           Len(sourceCode))

\* ---------------------------------------------------------- store properties
\* the two addresses are equal ignoring letter case
SameAddress(a, b) == a.hex = b.hex

\* every spelling of the addresses of the store
Spellings == StoreAddresses \cup {ToLowerCase(a) : a \in StoreAddresses}

\* the positions in the log of the saveAudit calls for the address
PutsFor(address) ==
    {i \in 1..Len(putLog) : SameAddress(putLog[i].contractAddress, address)}

\* C20: lookups by address ignore letter case and the last writer wins:
\* after any sequence of saveAudit calls getAuditByAddress(a) is, for every
\* spelling of a, the report of the latest call whose address equals a
\* ignoring case, and the address counts as audited exactly when there was
\* such a call.
C20_LookupIgnoresCaseLastWins ==
    \A a \in Spellings :
        /\ AlreadyAudited(a) <=> PutsFor(a) # {}
        /\ PutsFor(a) # {} =>
              getAuditById(getAuditByAddress(a)) = {putLog[SetMax(PutsFor(a))]}

\* two reports were saved for one address, the first under its mixed-case
\* spelling and the second in lower case, and both spellings return the second
C20_Witness ==
    /\ Len(putLog) >= 2
    /\ putLog[1].contractAddress = Address(1)
    /\ putLog[2].contractAddress = ToLowerCase(Address(1))
    /\ putLog[2] # putLog[1]
    /\ getAuditByAddress(Address(1)) = putLog[2].id
    /\ getAuditByAddress(ToLowerCase(Address(1))) = putLog[2].id

\* ---------------------------------------------------- reload properties
\* the positions in the data directory of the files of the address
FilesFor(address) ==
    {j \in 1..Len(dataDir) :
        SameAddress(putLog[dataDir[j]].contractAddress, address)}

\* the saveAudit calls of the running process for the address whose file is
\* not written
Unwritten(address) ==
    {i \in PutsFor(address) : putLog[i] \in auditsById /\ i \notin Written}

\* the files of the address were written in the order of their calls
WrittenInCallOrder(address) ==
    \A j, k \in FilesFor(address) : j < k => dataDir[j] < dataDir[k]

\* C21: the report returned for an address is the most recently persisted
\* one, after a reload too: whenever the address has a report file, its
\* files were written in the order of their saveAudit calls and no call of
\* the running process for it is still unwritten, getAuditByAddress returns
\* the report of the file written last, whatever order readdir gave.
C21_LookupIsLastPersisted ==
    \A a \in Spellings :
        (FilesFor(a) # {} /\ Unwritten(a) = {} /\ WrittenInCallOrder(a)) =>
            getAuditByAddress(a) = dataDir[SetMax(FilesFor(a))]

\* ------------------------------------------------------ route properties
\* the fields of a report the route and the pipeline are compared on
Body(r) ==
    [sourceAvailable |-> r.sourceAvailable, findings |-> r.findings,
     overallRisk |-> r.overallRisk]

\* the step persists a report with the fields of r as the report of its
\* address
Persists(r) ==
    \E s \in auditsById' \ auditsById :
        /\ Body(s) = Body(r)
        /\ SameAddress(s.contractAddress, r.contractAddress)
        /\ auditsByAddress'[ToLowerCase(r.contractAddress)] = s.id

\* the step begins the fetch of request q
FetchBegins(q) == q \in route' /\ \A p \in route : p.req # q.req

\* C22: the /audit route does what a pipeline worker does after its
\* debounce (processContract from its dedup test on): it begins a fetch only
\* for an address that has no report; when the fetch returns no source it
\* persists the minimal report of the pipeline; when the analysis returns it
\* persists a report with the flag, findings and overall risk of the
\* pipeline's report for these findings.
C22_OnDemandLikePipeline ==
    [][ /\ \A q \in route' : FetchBegins(q) => ~AlreadyAudited(q.address)
        /\ \A q \in route :
              LET d == [seq |-> Len(putLog) + 1, contractAddress |-> q.address]
              IN  /\ (q.pc = "fetching" /\ \A p \in route' : p.req # q.req)
                        => Persists(MinimalReport(d))
                  /\ \A p \in route' :
                        (p.req = q.req /\ q.pc = "analyzing" /\ p.pc = "saving")
                        => Persists(FullReport(d, p.findings)) ]_vars

\* ------------------------------------------------- polling loop properties
\* the polling loop is inside a tick, suspended on a chain call
InTick == mpc \in {"height", "getBlock", "receipt", "getCode"}

\* C23: no step of a tick, a failed chain-height query, block fetch or
\* receipt fetch included, ends the polling loop: a tick goes on or ends in
\* the sleep of the poll interval with the monitor still running, and a
\* sleep that ends with no stop requested is followed by the chain-height
\* query of another tick.
C23_FailedTickIsFollowedByAnother ==
    [][ /\ InTick => /\ InTick' \/ mpc' = "sleep"
                     /\ monitorState'.isRunning
        /\ (mpc = "sleep" /\ ~stopRequested /\ mpc' # "sleep") =>
              /\ mpc' = "height"
              /\ monitorState'.isRunning ]_vars

\* a tick in which a getBlock call failed has ended, no stop is requested
\* and the loop sleeps before its next tick
C23_Witness ==
    /\ mpc = "sleep"
    /\ ~stopRequested
    /\ monitorState.isRunning
    /\ \E i \in 1..Len(tickLog) : tickLog[i].result = "failed"

\* C24: no failure of an external call, the chain-height query of a starting
\* monitor included, makes startMonitor reject or ends the process.
C24_NoFailureEndsTheProcess == mpc # "exited"

\* ---------------------------------------------------- dispatch properties
\* the audits the step dispatches (processContract is called, line 66)
Dispatched == {a \in audits' \ audits : a.pc = "debounce"}

\* C25: once stop is requested the worker pool dequeues nothing more: no
\* step taken while the stop flag is set dispatches a deployment or shortens
\* a pending queue.
C25_NoDequeueAfterStop ==
    [][ stopRequested =>
          /\ Dispatched = {}
          /\ \A r \in 1..Len(auditQueue) :
                Len(auditQueue'[r]) >= Len(auditQueue[r]) ]_vars

\* the deployment numbered n is pending in a queue
Enqueued(n) ==
    \E r \in 1..Len(auditQueue) :
        \E i \in 1..Len(auditQueue[r]) : auditQueue[r][i].seq = n

\* the deployment numbered n is pending in the queue of the running monitor
EnqueuedByRun(n) ==
    /\ monitorState.isRunning
    /\ cur >= 1
    /\ \E i \in 1..Len(auditQueue[cur]) : auditQueue[cur][i].seq = n

\* the deployments pending in the queue of run r
Pending(r) == {auditQueue[r][i] : i \in 1..Len(auditQueue[r])}

\* C26: enqueueing never rejects nor drops: every deployment found is
\* appended to the queue of its run whatever is pending or in flight, and a
\* deployment leaves a queue only by being dispatched. While the monitor is
\* not stopped and audits end, a deployment pending in the queue of the
\* running monitor is eventually dispatched (or a stop is requested).
C26_EnqueuedIsEventuallyDispatched ==
    /\ [][ /\ monitorState'.contractsFound # monitorState.contractsFound =>
                 /\ Len(auditQueue'[cur]) = Len(auditQueue[cur]) + 1
                 /\ auditQueue'[cur][Len(auditQueue'[cur])].seq =
                        monitorState'.contractsFound
          /\ \A r \in 1..Len(auditQueue) :
                \A d \in Pending(r) \ Pending(r)' :
                    \E a \in Dispatched : a.seq = d.seq /\ a.run = r ]_vars
    /\ \A n \in 1..MaxFound :
          (EnqueuedByRun(n) /\ ~stopRequested)
              ~> (~Enqueued(n) \/ stopRequested)

\* the deployment found last is pending in the queue of the running
\* monitor, enqueued while the pool stands at its ceiling, and no stop is
\* requested
C26_Witness ==
    /\ EnqueuedByRun(monitorState.contractsFound)
    /\ processingAudits[cur] = config.maxConcurrentAnalyses
    /\ Cardinality(audits) = config.maxConcurrentAnalyses
    /\ ~stopRequested

\* --------------------------------------------------------- stop properties
\* startMonitor is suspended on a chain call or on the sleep of the poll
\* interval: it has a step to take once the call returns or the timer fires
LoopPending ==
    mpc \in {"starting", "height", "getBlock", "receipt", "getCode", "sleep"}

\* C27: after a stop request on a running monitor the polling loop goes on
\* to its exit, where the running flag becomes false: as long as the flag is
\* true with stop requested, startMonitor is still running towards the test
\* of the stop flag; and no start request made in the meantime clears the
\* stop flag.
C27_StopEndsTheLoop ==
    /\ [](stopRequested /\ monitorState.isRunning => LoopPending)
    /\ [][ (stopRequested /\ monitorState.isRunning) => stopRequested' ]_vars

\* ------------------------------------------------------ receipt properties
\* the creation transactions of the block in progress after position txIdx
LaterCreations ==
    {j \in (txIdx + 1)..Len(BlockTxs(blockNum)) :
        BlockTxs(blockNum)[j].to = "null"}

\* the step is the loop leaving a receipt call that gave no deployment: the
\* call failed or its receipt holds no contract address
ReceiptGaveNothing ==
    /\ mpc = "receipt"
    /\ mpc' # "getCode"
    /\ << mpc, txIdx, blockNum, tickLog >>' # << mpc, txIdx, blockNum, tickLog >>

\* C28: a failed receipt fetch skips only its transaction. The scan goes on
\* with the next creation transaction of the same block when there is one;
\* otherwise the block counts as scanned and the next block of the range is
\* fetched, unless the range is over or stop is requested. Nothing pending
\* is lost. (A deployment found later is enqueued: C26.)
C28_FailedReceiptSkipsOneTransaction ==
    [][ ReceiptGaveNothing =>
          /\ auditQueue' = auditQueue
          /\ IF LaterCreations # {}
             THEN /\ mpc' = "receipt"
                  /\ blockNum' = blockNum
                  /\ txIdx' \in LaterCreations
                  /\ \A j \in LaterCreations : txIdx' <= j
             ELSE /\ tickLog'[Len(tickLog)].result = "scanned"
                  /\ IF blockNum < toBlock /\ ~stopRequested
                     THEN /\ mpc' = "getBlock"
                          /\ blockNum' = blockNum + 1
                     ELSE mpc' = "sleep" ]_vars

\* the first deployment found is the second creation transaction of block
\* 2: the receipt fetch of the first one failed (its receipt holds an
\* address), the second was still scanned and enqueued, and the scan has
\* gone on to the next block of the range
C28_Witness ==
    /\ cur >= 1
    /\ \E i \in 1..Len(auditQueue[cur]) :
          /\ auditQueue[cur][i].seq = 1
          /\ auditQueue[cur][i].blockNumber = 2
          /\ auditQueue[cur][i].txIndex = 2
    /\ blockNum = 3
    /\ mpc = "receipt"

\* ------------------------------------------------------- order properties
\* deployment d was found before deployment e and lies before it on the
\* chain: a lower block or, in one block, an earlier transaction
Before(d, e) ==
    /\ d.seq < e.seq
    /\ \/ d.blockNumber < e.blockNumber
       \/ d.blockNumber = e.blockNumber /\ d.txIndex < e.txIndex

\* C29: dispatch is first in, first out within a monitor run. Each pending
\* queue holds its deployments in the order found, which is ascending block
\* and, within a block, transaction order; a dispatch takes deployments from
\* the head, so whatever is dispatched was found before everything left
\* pending in its run, and every audit in flight before everything pending.
C29_DispatchIsFifo ==
    /\ [](\A r \in 1..Len(auditQueue) :
            /\ \A i, j \in 1..Len(auditQueue[r]) :
                  i < j => Before(auditQueue[r][i], auditQueue[r][j])
            /\ \A a \in audits : \A i \in 1..Len(auditQueue[r]) :
                  a.run = r => a.seq < auditQueue[r][i].seq)
    /\ [][ \A a \in Dispatched :
              /\ \E i \in 1..Len(auditQueue[a.run]) :
                    auditQueue[a.run][i].seq = a.seq
              /\ \A i \in 1..Len(auditQueue'[a.run]) :
                    a.seq < auditQueue'[a.run][i].seq ]_vars

\* the deployment of block 2 found first is dispatched and in flight while
\* the one found next, in block 4, is pending in the queue of the same run
C29_Witness ==
    /\ cur >= 1
    /\ \E a \in audits : a.seq = 1 /\ a.run = cur
    /\ \E i \in 1..Len(auditQueue[cur]) :
          /\ auditQueue[cur][i].seq = 2
          /\ auditQueue[cur][i].blockNumber = 4

\* C30: the stop flag is tested before every block of a range and before
\* every tick: while stop stays requested no getBlock call is made for a
\* further block and no chain-height query begins a new tick.
C30_StopStartsNoBlockNoTick ==
    [][ (stopRequested /\ stopRequested') =>
          /\ ~(mpc' = "getBlock" /\ (mpc # "getBlock" \/ blockNum' # blockNum))
          /\ Len(tickLog') <= Len(tickLog)
          /\ ~(mpc' = "height" /\ mpc # "height") ]_vars

\* stop was requested inside a range: the tick has ended and the loop
\* sleeps, with the last blocks of the range never fetched
C30_Witness ==
    /\ stopRequested
    /\ mpc = "sleep"
    /\ tickLog # << >>
    /\ tickLog[Len(tickLog)].block < Marker

\* ------------------------------------------------------ chunk properties
\* C31: the chunks are analyzed one after another and the audit's findings
\* are, in chunk order, the findings of each settled chunk whose confidence
\* is at least the threshold; a chunk whose request failed or whose output
\* holds no parsable array adds nothing and takes nothing away, and once
\* every chunk has settled the report is built from these findings.
C31_FindingsConcatenateInChunkOrder ==
    /\ Len(llmFindings) <= Len(chunks)
    /\ allFindings = ConfidentOfAll(llmFindings, confidenceThreshold, 1)
    /\ (chunks # << >> /\ Len(llmFindings) = Len(chunks)) =>
          IF savedReport = NoResult
          THEN ENABLED ReportBuilt(FALSE)
          ELSE savedReport.findings = allFindings

\* ------------------------------------------------- in-flight properties
\* what the audit a has become after the step (nothing: it has ended)
After(a) == {b \in audits' : b.seq = a.seq}

\* some step of the audit a can be taken
CanGoOn(a) ==
    ENABLED (\/ DebounceDone(a)
             \/ \E found \in BOOLEAN : FetchReturns(a, found)
             \/ \E f \in AnalyzerOutputs : AnalyzeReturns(a, f)
             \/ WriteReturns(a)
             \/ WriteFails(a))

\* C32: a stop request aborts no dispatched audit. Whatever the stop flag and
\* the running flag are, every audit in flight can take its next step, and
\* its steps are those of processContract: from the debounce to the fetch
\* unless its address has a report, from the fetch to the analysis or to the
\* minimal report with the skipped counter, from the analysis to the full
\* report, and it ends only as a duplicate or after its write, which adds
\* to the audited counter when it succeeds.
C32_StopAbortsNoAudit ==
    /\ [](\A a \in audits : CanGoOn(a))
    /\ [][ \A a \in audits :
            /\ After(a) = {} =>
                  \/ a.pc = "debounce" /\ AlreadyAudited(a.contractAddress)
                  \/ /\ a.pc = "saveMinimal"
                     /\ monitorState' = monitorState
                  \/ /\ a.pc = "saveFull"
                     /\ monitorState'.contractsAudited
                            \in {monitorState.contractsAudited,
                                 monitorState.contractsAudited + 1}
            /\ \A b \in After(a) : b.pc # a.pc =>
                  \/ /\ a.pc = "debounce" /\ b.pc = "fetching"
                     /\ ~AlreadyAudited(a.contractAddress)
                  \/ a.pc = "fetching" /\ b.pc = "analyzing"
                  \/ /\ a.pc = "fetching" /\ b.pc = "saveMinimal"
                     /\ HasReport(a.contractAddress)'
                     /\ monitorState'.contractsSkipped =
                            monitorState.contractsSkipped + 1
                  \/ /\ a.pc = "analyzing" /\ b.pc = "saveFull"
                     /\ HasReport(a.contractAddress)' ]_vars

\* stop is requested and the polling loop has exited, the running flag is
\* false, and an audit dispatched by that run has just put its full report
\* in the store and awaits its write, after which the audited counter grows
C32_Witness ==
    /\ stopRequested
    /\ ~monitorState.isRunning
    /\ mpc = "idle"
    /\ monitorState.contractsAudited = 0
    /\ \E a \in audits : a.pc = "saveFull" /\ HasReport(a.contractAddress)

\* ---------------------------------------------------- counter properties
\* the number of deployments pending in the queues of runs 1..r
RECURSIVE QueuedUpTo(_)
QueuedUpTo(r) == IF r = 0 THEN 0 ELSE Len(auditQueue[r]) + QueuedUpTo(r - 1)

\* the deployments found that no counter has counted yet: pending in a
\* queue, or dispatched and not yet at the write of a minimal report
Uncounted ==
    QueuedUpTo(Len(auditQueue))
        + Cardinality({a \in audits : a.pc # "saveMinimal"})

\* the step belongs to a handler of the /audit route
RouteStep == route' # route \/ replies' # replies

\* C33: the audited and skipped counters never exceed the found counter,
\* even with every deployment still pending or in flight counted in; no
\* counter decreases; the found counter grows by one with each deployment
\* enqueued; the skipped counter grows by one only as an audit goes from its
\* fetch to its minimal report and the audited counter only as an audit ends
\* after the write of its full report, never both in one step; and no step
\* of the /audit route changes the monitor's state.
C33_CountersAccountForDeployments ==
    /\ [](monitorState.contractsAudited + monitorState.contractsSkipped
              + Uncounted <= monitorState.contractsFound)
    /\ [][ /\ monitorState'.contractsFound \in
                  {monitorState.contractsFound,
                   monitorState.contractsFound + 1}
           /\ monitorState'.contractsFound # monitorState.contractsFound =>
                  /\ Len(auditQueue'[cur]) = Len(auditQueue[cur]) + 1
                  /\ monitorState'.contractsAudited =
                         monitorState.contractsAudited
                  /\ monitorState'.contractsSkipped =
                         monitorState.contractsSkipped
           /\ \/ /\ monitorState'.contractsSkipped =
                         monitorState.contractsSkipped
                 /\ monitorState'.contractsAudited =
                         monitorState.contractsAudited
              \/ /\ monitorState'.contractsSkipped =
                         monitorState.contractsSkipped + 1
                 /\ monitorState'.contractsAudited =
                         monitorState.contractsAudited
                 /\ \E a \in audits :
                        /\ a.pc = "fetching"
                        /\ \A b \in After(a) : b.pc = "saveMinimal"
                        /\ After(a) # {}
              \/ /\ monitorState'.contractsSkipped =
                         monitorState.contractsSkipped
                 /\ monitorState'.contractsAudited =
                         monitorState.contractsAudited + 1
                 /\ \E a \in audits : a.pc = "saveFull" /\ After(a) = {}
           /\ RouteStep => monitorState' = monitorState ]_vars

\* both deployments of a block have been counted, one as skipped and one as
\* audited, and an on-demand audit has been saved and answered meanwhile
C33_Witness ==
    /\ monitorState.contractsFound = 2
    /\ monitorState.contractsAudited = 1
    /\ monitorState.contractsSkipped = 1
    /\ \E i \in 1..Len(replies) : replies[i].status = "success"

\* ------------------------------------------------------- start properties
\* the polling loop of a startMonitor call is between its first test
\* (monitor.ts:76) and its exit (line 147)
LoopActive == mpc \in {"height", "getBlock", "receipt", "getCode", "sleep"}

\* the step creates a queue or a worker pool, or enters a polling loop
Creates ==
    \/ Len(auditQueue') # Len(auditQueue)
    \/ Len(wpc') # Len(wpc)
    \/ Len(processingAudits') # Len(processingAudits)
    \/ ~LoopActive /\ LoopActive'

\* C34: at most one polling loop is active. While a loop is active the
\* running flag is set; while the flag is set a start request starts
\* nothing; and a step that creates a queue or a pool or enters a polling
\* loop is taken with no loop active, by a start made with the flag clear
\* (or resumed after its height request), and creates one queue and one pool.
C34_OnePollingLoop ==
    /\ [](LoopActive => monitorState.isRunning)
    /\ [](monitorState.isRunning => ~ENABLED StartMonitor)
    /\ [][ Creates =>
             /\ ~LoopActive
             /\ ~monitorState.isRunning \/ mpc = "starting"
             /\ monitorState'.isRunning = LoopActive'
             /\ Len(auditQueue') = Len(auditQueue) + 1
             /\ Len(wpc') = Len(wpc) + 1
             /\ Len(processingAudits') = Len(processingAudits) + 1 ]_vars

\* a stop was requested and the loop of the first run has not reached its
\* exit yet: the flag is set, and a start request made now, with runs to
\* spare, returns at once
C34_Witness ==
    /\ stopRequested
    /\ monitorState.isRunning
    /\ LoopActive
    /\ Len(auditQueue) = 1
    /\ Len(auditQueue) < MaxRuns

\* C35: the running flag is set only while a polling loop is active or a
\* start awaits its height request; and whenever neither is the case a start
\* request (with runs to spare) starts the monitor.
C35_RunningMeansLoop ==
    /\ monitorState.isRunning => LoopActive \/ mpc = "starting"
    /\ (~LoopActive /\ mpc # "starting" /\ Len(auditQueue) < MaxRuns) =>
           ENABLED StartMonitor

\* ----------------------------------------------------- overlap properties
\* C36: of two audits of one address that are in flight at the same time at
\* most one has passed the dedup test, that is fetches, analyzes or writes,
\* and the by-id index never holds a report of each.
C36_OverlappingAuditsSaveOnce ==
    \A a, b \in audits :
        (a.seq # b.seq
            /\ ToLowerCase(a.contractAddress) = ToLowerCase(b.contractAddress)) =>
           /\ a.pc = "debounce" \/ b.pc = "debounce"
           /\ getAuditById(a.seq) = {} \/ getAuditById(b.seq) = {}

\* the dequeue loops (processAudits calls) that have not returned
AliveLoops == {r \in 1..Len(wpc) : wpc[r] # "done"}

\* C37: at most one dequeue loop is alive at any time, and it is the loop
\* the latest start created: the loop of every earlier run has returned.
C37_OneDequeueLoop ==
    /\ Cardinality(AliveLoops) <= 1
    /\ \A r \in AliveLoops : r = cur

====
